---- MODULE Spec2Model ----
(***************************************************************************)
(* A model of the TLS certificate scanner of QuantumCertify:               *)
(*   src/tls_scanner.py          name resolution, task scheduling, the two *)
(*                               fetchers, the thread-pool orchestration   *)
(*   src/backend/app/scanner.py  the backend's per-port fetcher            *)
(*                                                                         *)
(* Python dicts are functions on string keys (a key that the code never    *)
(* sets is outside the DOMAIN), Python lists are sequences, None is the    *)
(* string "None" where the other values of the field are strings.          *)
(***************************************************************************)
EXTENDS Integers, Sequences, FiniteSets, TLC

VARIABLES
    \* ---- the fetchers, run on one endpoint (FetchSpec)
    fpc,        \* "idle" | "ready" | "done"
    fenv,       \* the endpoint: what the native handshake and the tool do
    fetcher,    \* which fetcher ran
    fres,       \* the dict the fetcher returned
    fcalls,     \* the blocking operations the fetcher performed, in order
    \* ---- follow_cname_chain, one loop iteration per step (CnameSpec)
    cpc,        \* "idle" | "loop" | "done"
    czone,      \* the CNAME records the resolver sees
    cn_name,    \* the argument `name`
    cn_current, \* the local `current`
    cn_chain,   \* the local `chain`
    cn_iter,    \* iterations of `for _ in range(max_depth)` begun so far
    \* ---- scan_target (Spec)
    pc,         \* where scan_target is: "entry", "resolved", "submitting",
                \* "collecting", "shutdown", "returned" ("failed": an
                \* exception left it)
    args,       \* the arguments of the call
    zone,       \* the DNS records the resolver sees
    scan_result, \* the local dict `result`
    tasks,      \* the local list `tasks`
    future_map, \* the meta dict of each future submitted so far, in order
    futures,    \* the state of each future submitted so far
    yielded,    \* the futures as_completed has yielded, in order
    \* ---- cert_to_metadata, run on one certificate object (MetaSpec)
    mpc,        \* "idle" | "ready" | "done"
    mcert,      \* the certificate: what each of its accessors does
    mres,       \* what the call returned: a dict, or the exception it raised
    \* ---- the backend's scan_domain (DomainSpec)
    dpc,        \* "idle" | "entry" | "loop" | "fetching" | "done"
    dhost,      \* the scanned host: what each of its ports does
    dports,     \* the argument `ports`
    ports_to_scan, \* the local `ports_to_scan`
    dindex,     \* how many iterations of `for port in ports_to_scan` are done
    dscan,      \* the local dict `scan_result` of scan_domain
    dlog        \* the calls and returns of fetch_cert_from_port, in order

fetchVars == <<fpc, fenv, fetcher, fres, fcalls>>

cnameVars == <<cpc, czone, cn_name, cn_current, cn_chain, cn_iter>>

scanVars == <<pc, args, zone, scan_result, tasks, future_map, futures, yielded>>

metaVars == <<mpc, mcert, mres>>

domVars == <<dpc, dhost, dports, ports_to_scan, dindex, dscan, dlog>>

vars == <<fetchVars, cnameVars, scanVars, metaVars, domVars>>

-----------------------------------------------------------------------------
(* Bounds *)

\* the longest sequence of PEM blocks in the tool's output
MaxBlocks == 3

\* the longest port list of a scan
MaxPorts == 2

\* the largest concurrency bound of a scan
MaxWorkers == 2

\* the most tasks a scan schedules
MaxTasks == 4

-----------------------------------------------------------------------------
(* Certificates and their encodings *)

\* the certificate the server presents, and one of its issuers
Certs == {"leaf", "inter"}

\* what stands between a BEGIN CERTIFICATE and an END CERTIFICATE marker:
\* the base64 of a certificate, or text that does not decode
PemBodies == Certs \cup {"garbled"}

PemBlock(b) == [pem |-> b]

DerBytes(c) == [der |-> c]

\* what an accessor of a certificate object does when cert_to_metadata reads
\* it: it returns a value, or it raises
Ok(v) == [ok |-> TRUE, v |-> v]

Raise(why) == [ok |-> FALSE, why |-> why]

\* the object x509 loads from the encoding of the certificate c: every
\* accessor returns
CertObject(c) ==
    [cert |-> c,
     subject |-> Ok(c),
     issuer |-> Ok("CN=Example CA"),
     not_valid_before |-> Ok("2026-01-01T00:00:00"),
     not_valid_after |-> Ok("2027-01-01T00:00:00"),
     serial_number |-> Ok("1f"),
     san |-> Ok([dns |-> <<"www.example">>, ips |-> <<>>]),
     public_key |-> Ok([type |-> "RSA", key_size |-> Ok(2048)]),
     signature_algorithm_oid |-> Ok("1.2.840.113549.1.1.11"),
     signature_hash_algorithm |-> Ok("sha256"),
     fingerprint |-> Ok(c)]

\* x509.load_pem_x509_certificate raises on a block that does not decode
pem_parses(pem) == pem.pem \in Certs

parse_cert_from_pem(pem) == CertObject(pem.pem)

der_parses(der) == der.der \in Certs

parse_cert_from_der(der) == CertObject(der.der)

\* cert.public_bytes(encoding=serialization.Encoding.DER)
public_bytes(cert) == [der |-> cert.cert]

\* the value None where a str is expected
None == "None"

\* d[k] = v on a dict
Put(d, k, v) == (k :> v) @@ d

Has(d, k) == k \in DOMAIN d

\* the keys of the first try block and the accessors they are read from, in
\* the order of the assignments
BasicFields ==
    <<[key |-> "subject", attr |-> "subject"],
      [key |-> "issuer", attr |-> "issuer"],
      [key |-> "not_before", attr |-> "not_valid_before"],
      [key |-> "not_after", attr |-> "not_valid_after"],
      [key |-> "serial_number", attr |-> "serial_number"]>>

\* the first try block: the assignments run in order until one raises, and
\* the handler then sets parse_error_basic
RECURSIVE metadata_basic(_, _, _)
metadata_basic(d, cert, i) ==
    IF i > Len(BasicFields) THEN d
    ELSE IF cert[BasicFields[i].attr].ok
         THEN metadata_basic(Put(d, BasicFields[i].key, cert[BasicFields[i].attr].v), cert, i + 1)
         ELSE Put(d, "parse_error_basic", cert[BasicFields[i].attr].why)

\* the SAN block: DNS names, then IP addresses; [] when anything raises
metadata_san(d, cert) ==
    IF cert.san.ok
    THEN Put(d, "san", cert.san.v.dns \o cert.san.v.ips)
    ELSE Put(d, "san", <<>>)

\* the try block over `pub`, the key cert.public_key() returned
metadata_public_key(d, pub) ==
    CASE pub.type = "RSA" ->
            IF pub.key_size.ok
            THEN Put(Put(d, "public_key_algorithm", "RSA"), "public_key_bits", pub.key_size.v)
            ELSE Put(Put(d, "public_key_algorithm", "RSA"),
                     "public_key_parse_error", pub.key_size.why)
      [] pub.type = "EC" ->
            Put(Put(d, "public_key_algorithm", "ECDSA"), "public_key_curve",
                IF pub.curve_name.ok THEN pub.curve_name.v ELSE "<EllipticCurve object>")
      [] pub.type = "DSA" ->
            IF pub.key_size.ok
            THEN Put(Put(d, "public_key_algorithm", "DSA"), "public_key_bits", pub.key_size.v)
            ELSE Put(Put(d, "public_key_algorithm", "DSA"),
                     "public_key_parse_error", pub.key_size.why)
      [] OTHER -> Put(d, "public_key_algorithm", pub.type)

\* the three last try blocks: the value, or None when the accessor raises
metadata_value_or_none(d, key, outcome) ==
    Put(d, key, IF outcome.ok THEN outcome.v ELSE None)

\* an exception that leaves the function
Raised(x) == Has(x, "raises")

\* `pub = cert.public_key()` stands outside every try block
public_key_raises(cert) == ~cert.public_key.ok

\* the metadata dict of a parsed certificate, or the exception of public_key()
cert_to_metadata(cert) ==
    IF public_key_raises(cert)
    THEN [raises |-> cert.public_key.why]
    ELSE LET basic == metadata_basic(<<>>, cert, 1)
             san   == metadata_san(basic, cert)
             key   == metadata_public_key(san, cert.public_key.v)
             oid   == metadata_value_or_none(key, "signature_algorithm_oid",
                                             cert.signature_algorithm_oid)
             sha   == metadata_value_or_none(oid, "signature_hash_algorithm",
                                             cert.signature_hash_algorithm)
         IN  metadata_value_or_none(sha, "sha256_fingerprint", cert.fingerprint)

-----------------------------------------------------------------------------
(* The endpoint a fetcher talks to *)

\* socket.create_connection + wrap_socket + getpeercert(binary_form=True):
\* the handshake delivers the DER of the leaf, or nothing, or raises; the
\* connect ("timeout") and the handshake ("hs_timeout") may each time out
NativeOutcomes ==
    { [kind |-> "ok", der |-> DerBytes("leaf")],
      [kind |-> "ok", der |-> DerBytes("undecodable")],
      [kind |-> "nocert"],
      [kind |-> "timeout"],
      [kind |-> "hs_timeout"],
      [kind |-> "gaierror"],
      [kind |-> "refused"],
      [kind |-> "sslerror"],
      [kind |-> "oserror"] }

RECURSIVE SeqsUpTo(_, _)
SeqsUpTo(S, n) ==
    IF n = 0 THEN {<<>>}
    ELSE LET shorter == SeqsUpTo(S, n - 1)
         IN  shorter \cup {Append(s, x) : s \in {t \in shorter : Len(t) = n - 1}, x \in S}

\* stdout of openssl s_client: empty, or protocol chatter with PEM blocks in it
ToolStdouts ==
    {[empty |-> TRUE, blocks |-> <<>>]}
    \cup {[empty |-> FALSE, blocks |-> [i \in DOMAIN s |-> PemBlock(s[i])]]
            : s \in SeqsUpTo(PemBodies, MaxBlocks)}

\* what happens when the fetcher calls the external tool
ToolOutcomes ==
    { [kind |-> "missing"], [kind |-> "timeout"], [kind |-> "oserror"] }
    \cup {[kind |-> "ran", stdout |-> o, stderr |-> e]
            : o \in ToolStdouts, e \in {"", "connect:errno=111"}}

Endpoints == [native : NativeOutcomes, tool : ToolOutcomes]

-----------------------------------------------------------------------------
(* Python values *)

\* the value None where the tool's stdout is expected
NoOutput == [none |-> TRUE]

\* `if openssl_out:` is false for None and for the empty string
Truthy(out) == Has(out, "empty") /\ ~out.empty

\* str(e) of the exception the native connect or handshake raised
str_exc(kind) ==
    CASE kind = "timeout"  -> "timed out"
      [] kind = "hs_timeout" -> "_ssl.c:1006: The handshake operation timed out"
      [] kind = "gaierror" -> "[Errno -2] Name or service not known"
      [] kind = "refused"  -> "[Errno 111] Connection refused"
      [] kind = "sslerror" -> "[SSL: HANDSHAKE_FAILURE]"
      [] OTHER             -> "[Errno 101] Network is unreachable"

NativeRaises(native) == native.kind \notin {"ok", "nocert"}

-----------------------------------------------------------------------------
(* src/tls_scanner.py: the External Tool Gateway *)

run_openssl_one_failure_message(tool) ==
    IF tool.kind = "ran"
    THEN [out |-> tool.stdout, err |-> tool.stderr]
    ELSE [out |-> NoOutput, err |-> "openssl failed"]

\* (stdout, stderr), or (None, error_message) on failure; it never raises
run_openssl_showcerts(tool) ==
    CASE tool.kind = "missing" -> [out |-> NoOutput, err |-> "openssl not found in PATH"]
      [] tool.kind = "timeout" -> [out |-> NoOutput, err |-> "openssl timeout: Command timed out after 8 seconds"]
      [] tool.kind = "oserror" -> [out |-> NoOutput, err |-> "[Errno 12] Cannot allocate memory"]
      [] OTHER                 -> [out |-> tool.stdout, err |-> tool.stderr]

\* every BEGIN CERTIFICATE ... END CERTIFICATE block, in output order
extract_pems_from_openssl_output(openssl_out) ==
    IF ~Truthy(openssl_out) THEN <<>> ELSE openssl_out.blocks

\* the loop of fetch_cert_implicit over the PEM blocks: a block that does not
\* parse leaves a marker at its position
implicit_chain(pems) ==
    [i \in DOMAIN pems |->
        IF pem_parses(pems[i])
        THEN cert_to_metadata(parse_cert_from_pem(pems[i]))
        ELSE [parse_error |-> "parse_failed_for_pem"]]

\* the same loop in fetch_cert_starttls, whose marker is str(e)
starttls_chain(pems) ==
    [i \in DOMAIN pems |->
        IF pem_parses(pems[i])
        THEN cert_to_metadata(parse_cert_from_pem(pems[i]))
        ELSE [parse_error |-> "Unable to load PEM file"]]

\* f"openssl returned no certs; err: {openssl_err!s}"
no_certs_error(openssl_err) ==
    IF openssl_err = ""
    THEN "openssl returned no certs; err: "
    ELSE "openssl returned no certs; err: connect:errno=111"

-----------------------------------------------------------------------------
(* src/tls_scanner.py: the two fetchers *)

\* the try block: the native handshake went through
implicit_native_path(out, env) ==
    LET der      == env.native
        withLeaf == IF der.kind = "ok"
                    THEN IF der_parses(der.der)
                         THEN Put(out, "leaf", cert_to_metadata(parse_cert_from_der(der.der)))
                         ELSE Put(out, "warnings", <<"failed_parse_leaf_from_der">>)
                    ELSE out
        tool     == run_openssl_showcerts(env.tool)
        chain    == implicit_chain(extract_pems_from_openssl_output(tool.out))
        withChain == IF Truthy(tool.out) /\ chain # <<>>
                     THEN Put(withLeaf, "chain", chain)
                     ELSE withLeaf
    IN  Put(withChain, "error", None)

fallback_keeps_native_error(out, env) ==
    LET tool  == run_openssl_showcerts(env.tool)
        chain == implicit_chain(extract_pems_from_openssl_output(tool.out))
        withChain == IF Truthy(tool.out) /\ chain # <<>>
                     THEN Put(Put(out, "chain", chain), "leaf", chain[1])
                     ELSE out
    IN  Put(withChain, "error", str_exc(env.native.kind))

\* the except block: the tool alone
implicit_fallback_path(out, env) ==
    LET tool  == run_openssl_showcerts(env.tool)
        chain == implicit_chain(extract_pems_from_openssl_output(tool.out))
    IN  IF Truthy(tool.out)
        THEN IF chain # <<>>
             THEN Put(Put(Put(out, "chain", chain), "leaf", chain[1]), "error", None)
             ELSE Put(out, "error", no_certs_error(tool.err))
        ELSE Put(out, "error", str_exc(env.native.kind))

fetch_cert_implicit(ip, port, servername, env) ==
    LET out == [ip |-> ip, port |-> port, mode |-> "implicit", servername |-> servername]
    IN  IF NativeRaises(env.native)
        THEN implicit_fallback_path(out, env)
        ELSE implicit_native_path(out, env)

fetch_cert_starttls_own_message(target_host, port, starttls_proto, servername, env) ==
    LET out  == [host |-> target_host, port |-> port, mode |-> "starttls",
                 protocol |-> starttls_proto, servername |-> servername]
        tool == run_openssl_showcerts(env.tool)
        pems == extract_pems_from_openssl_output(tool.out)
        chain == starttls_chain(pems)
    IN  IF ~Truthy(tool.out)
        THEN Put(out, "error", "no_output_from_openssl")
        ELSE IF pems = <<>>
        THEN Put(Put(out, "error", "no_pem_found_in_openssl_output"), "raw_openssl", tool.out)
        ELSE Put(Put(Put(out, "chain", chain), "leaf", chain[1]), "error", None)

fetch_cert_starttls(target_host, port, starttls_proto, servername, env) ==
    LET out  == [host |-> target_host, port |-> port, mode |-> "starttls",
                 protocol |-> starttls_proto, servername |-> servername]
        tool == run_openssl_showcerts(env.tool)
        pems == extract_pems_from_openssl_output(tool.out)
        chain == starttls_chain(pems)
    IN  IF ~Truthy(tool.out)
        THEN Put(out, "error", IF tool.err # "" THEN tool.err ELSE "no_output_from_openssl")
        ELSE IF pems = <<>>
        THEN Put(Put(out, "error", "no_pem_found_in_openssl_output"), "raw_openssl", tool.out)
        ELSE Put(Put(Put(out, "chain", chain), "leaf", chain[1]), "error", None)

-----------------------------------------------------------------------------
(* src/tls_scanner.py: the blocking operations a fetcher performs *)

\* `if servername:` and `if starttls_proto:` are false for None and for ""
Given(x) == x # None /\ x # ""

\* the command line of the tool: the connect target and the options
openssl_cmd(host_for_connect, port, servername, starttls_proto) ==
    [connect |-> <<host_for_connect, port>>,
     options |-> <<"-showcerts">>
                 \o (IF Given(servername) THEN <<"-servername", servername>> ELSE <<>>)
                 \o (IF Given(starttls_proto) THEN <<"-starttls", starttls_proto>> ELSE <<>>)]

\* the native outcomes in which socket.create_connection returned a socket
ConnectSucceeded(native) == native.kind \in {"ok", "nocert", "sslerror", "hs_timeout"}

\* fetch_cert_implicit: the TCP connect, the TLS handshake when the connect
\* went through, and one run of the tool, in the try or in the except branch
\* each blocking operation carries the timeout of the call and either
\* completes before it or is waited out in full
connect_call(host, port, native) ==
    [op |-> "connect", address |-> <<host, port>>,
     timed_out |-> native.kind = "timeout"]

handshake_call(servername, native) ==
    [op |-> "handshake", server_hostname |-> servername,
     timed_out |-> native.kind = "hs_timeout"]

openssl_call(cmd, tool) ==
    [op |-> "openssl", cmd |-> cmd, timed_out |-> tool.kind = "timeout"]

implicit_calls(ip, port, servername, env) ==
    <<connect_call(ip, port, env.native)>>
    \o (IF ConnectSucceeded(env.native)
        THEN <<handshake_call(servername, env.native)>>
        ELSE <<>>)
    \o <<openssl_call(openssl_cmd(ip, port, servername, None), env.tool)>>

starttls_calls_after_native_probe(target_host, port, starttls_proto, servername, env) ==
    <<connect_call(target_host, port, env.native),
      openssl_call(openssl_cmd(target_host, port, servername, starttls_proto), env.tool)>>

\* fetch_cert_starttls: one run of the tool
starttls_calls(target_host, port, starttls_proto, servername, env) ==
    <<openssl_call(openssl_cmd(target_host, port, servername, starttls_proto), env.tool)>>

-----------------------------------------------------------------------------
(* src/backend/app/scanner.py: the backend's per-port fetcher *)

backend_run_openssl_showcerts(tool) ==
    CASE tool.kind = "missing" -> [out |-> NoOutput, err |-> "openssl not found in PATH"]
      [] tool.kind = "timeout" -> [out |-> NoOutput, err |-> "Connection timeout after 8s"]
      [] tool.kind = "oserror" -> [out |-> NoOutput, err |-> "[Errno 12] Cannot allocate memory"]
      [] OTHER                 -> [out |-> tool.stdout, err |-> tool.stderr]

\* the loop over enumerate(pems): a block that does not parse is passed over,
\* a block is appended when i > 0 or its DER differs from the native leaf's
RECURSIVE backend_append_chain(_, _, _, _)
backend_append_chain(certificates, pems, i, der) ==
    IF i > Len(pems) THEN certificates
    ELSE LET cert_der == public_bytes(parse_cert_from_pem(pems[i]))
             next == IF pem_parses(pems[i]) /\ (i > 1 \/ cert_der # der)
                     THEN Append(certificates, cert_der)
                     ELSE certificates
         IN  backend_append_chain(next, pems, i + 1, der)

\* the except clauses, in the order the code lists them
backend_error(kind) ==
    CASE kind \in {"timeout", "hs_timeout"} -> "Connection timeout after 8s"
      [] kind = "gaierror" -> "DNS resolution failed: [Errno -2] Name or service not known"
      [] kind = "refused"  -> "Connection refused"
      [] kind = "sslerror" -> "SSL/TLS error: [SSL: HANDSHAKE_FAILURE]"
      [] OTHER             -> str_exc(kind)

\* the backend's tool run has no -starttls option
backend_openssl_cmd(host, port, servername) ==
    [connect |-> <<host, port>>,
     options |-> <<"-showcerts">>
                 \o (IF Given(servername) THEN <<"-servername", servername>> ELSE <<>>)]

\* the connect, the handshake, and the tool run when the handshake gave a leaf
backend_calls(host, port, env) ==
    <<connect_call(host, port, env.native)>>
    \o (IF ConnectSucceeded(env.native)
        THEN <<handshake_call(host, env.native)>>
        ELSE <<>>)
    \o (IF env.native.kind = "ok"
        THEN <<openssl_call(backend_openssl_cmd(host, port, host), env.tool)>>
        ELSE <<>>)

fetch_cert_from_port_silent_without_certificate(host, port, env) ==
    LET result == [host |-> host, port |-> port, success |-> FALSE,
                   certificates |-> <<>>, error |-> None]
        der    == env.native.der
        tool   == backend_run_openssl_showcerts(env.tool)
        pems   == extract_pems_from_openssl_output(tool.out)
    IN  IF NativeRaises(env.native)
        THEN [result EXCEPT !.error = backend_error(env.native.kind)]
        ELSE IF env.native.kind = "nocert"
        THEN result
        ELSE [result EXCEPT !.success = TRUE,
                            !.certificates =
                                IF Truthy(tool.out)
                                THEN backend_append_chain(<<der>>, pems, 1, der)
                                ELSE <<der>>]

fetch_cert_from_port_reporting_chain_failure(host, port, env) ==
    LET result == [host |-> host, port |-> port, success |-> FALSE,
                   certificates |-> <<>>, error |-> None]
        der    == env.native.der
        tool   == backend_run_openssl_showcerts(env.tool)
        pems   == extract_pems_from_openssl_output(tool.out)
    IN  IF NativeRaises(env.native)
        THEN [result EXCEPT !.error = backend_error(env.native.kind)]
        ELSE IF env.native.kind = "nocert"
        THEN [result EXCEPT !.error = "No certificate returned by server"]
        ELSE [result EXCEPT !.success = TRUE,
                            !.certificates =
                                IF Truthy(tool.out)
                                THEN backend_append_chain(<<der>>, pems, 1, der)
                                ELSE <<der>>,
                            !.error = IF Truthy(tool.out) THEN None ELSE tool.err]

fetch_cert_from_port(host, port, env) ==
    LET result == [host |-> host, port |-> port, success |-> FALSE,
                   certificates |-> <<>>, error |-> None]
        der    == env.native.der
        tool   == backend_run_openssl_showcerts(env.tool)
        pems   == extract_pems_from_openssl_output(tool.out)
    IN  IF NativeRaises(env.native)
        THEN [result EXCEPT !.error = backend_error(env.native.kind)]
        ELSE IF env.native.kind = "nocert"
        THEN [result EXCEPT !.error = "No certificate returned by server"]
        ELSE [result EXCEPT !.success = TRUE,
                            !.certificates =
                                IF Truthy(tool.out)
                                THEN backend_append_chain(<<der>>, pems, 1, der)
                                ELSE <<der>>]

-----------------------------------------------------------------------------
(* src/tls_scanner.py: the Name Resolver *)

Names == {"www.example", "cdn.example", "edge.example"}

\* the resolver's answer to a CNAME query: a target, an empty answer, or a
\* DNSException (NXDOMAIN, timeout, ...)
CnameAnswers == Names \cup {"no-answer", "dns-error"}

\* `for _ in range(max_depth)`
max_depth == 10

cname_loop_unbounded(i) == TRUE

\* whether the for loop has an iteration left after i of them
cname_loop_continues(i) == i < max_depth

\* follow_cname_chain as a function of the zone: (current, chain)
RECURSIVE cname_loop(_, _, _, _)
cname_loop(records, cur, ch, i) ==
    IF ~cname_loop_continues(i) THEN [canonical |-> cur, cname_chain |-> ch]
    ELSE IF records[cur] \notin Names THEN [canonical |-> cur, cname_chain |-> ch]
    ELSE cname_loop(records, records[cur], Append(ch, records[cur]), i + 1)

follow_cname_chain(name, records) == cname_loop(records, name, <<>>, 0)

\* `resolver = dns.resolver.Resolver()` reads the system's resolver
\* configuration and raises NoResolverConfiguration, a DNSException, when there
\* is none (no /etc/resolv.conf, or no nameserver in it)
resolver_configured(z) == z.configured

\* an A or AAAA answer: the addresses, or a failing query
NoAddresses == [fail |-> FALSE, rrs |-> <<>>]

LookupFails == [fail |-> TRUE, rrs |-> <<>>]

\* the try/except around each of the two queries of resolve_ips
answer_or_nothing(answer) == IF answer.fail THEN <<>> ELSE answer.rrs

resolve_ips(name, z) == answer_or_nothing(z.a[name]) \o answer_or_nothing(z.aaaa[name])

\* resolve_ips builds its resolver before its first try block
resolve_ips_raises(z) == ~resolver_configured(z)

\* `try: canonical, cname_chain = follow_cname_chain(host)` and
\* `except Exception: canonical = host` in scan_target: follow_cname_chain
\* builds its resolver before its loop
followed_or_host(a, z) ==
    IF a.follow_cname /\ resolver_configured(z)
    THEN follow_cname_chain(a.host, z.cname)
    ELSE [canonical |-> a.host, cname_chain |-> <<>>]

ips_unchanged(ips, host) == ips

\* `if not ips: ips = [host]`
ips_or_literal(ips, host) == IF ips = <<>> THEN <<host>> ELSE ips

-----------------------------------------------------------------------------
(* src/tls_scanner.py: the Task Scheduler *)

IMPLICIT_TLS_PORTS == {443, 8443, 993, 995, 465, 5061}

STARTTLS_PORT_PROTO ==
    (25 :> "smtp") @@ (587 :> "smtp") @@ (143 :> "imap") @@ (110 :> "pop3")
    @@ (21 :> "ftp") @@ (5222 :> "xmpp")

\* STARTTLS_PORT_PROTO.get(port)
starttls_proto_of(port) ==
    IF port \in DOMAIN STARTTLS_PORT_PROTO THEN STARTTLS_PORT_PROTO[port] ELSE None

task_for_smtps_as_starttls(ip, port, host, starttls_protocols) ==
    LET proto == IF port = 465 THEN "smtp" ELSE starttls_proto_of(port)
    IN  IF proto # None /\ proto \in starttls_protocols
        THEN <<"starttls", ip, port, proto, host>>
        ELSE <<"implicit", ip, port, host>>

task_for_ignoring_enabled_set(ip, port, host, starttls_protocols) ==
    IF port \in IMPLICIT_TLS_PORTS
    THEN <<"implicit", ip, port, host>>
    ELSE LET proto == starttls_proto_of(port)
         IN  IF proto # None
             THEN <<"starttls", ip, port, proto, host>>
             ELSE <<"implicit", ip, port, host>>

\* the tuple appended to tasks for one (ip, port)
task_for(ip, port, host, starttls_protocols) ==
    IF port \in IMPLICIT_TLS_PORTS
    THEN <<"implicit", ip, port, host>>
    ELSE LET proto == starttls_proto_of(port)
         IN  IF proto # None /\ proto \in starttls_protocols
             THEN <<"starttls", ip, port, proto, host>>
             ELSE <<"implicit", ip, port, host>>

\* `ips if resolve_all_ips else ips[:1]`
ips_to_scan(ips, resolve_all_ips) ==
    IF resolve_all_ips THEN ips ELSE SubSeq(ips, 1, IF Len(ips) >= 1 THEN 1 ELSE 0)

build_tasks_sni_from_ip(ips, a) ==
    LET scanned == ips_to_scan(ips, a.resolve_all_ips)
        P == Len(a.ports)
    IN  [k \in 1..(Len(scanned) * P) |->
            task_for(scanned[((k - 1) \div P) + 1], a.ports[((k - 1) % P) + 1],
                     scanned[((k - 1) \div P) + 1], a.starttls_protocols)]

\* the nested loops over ips and ports
build_tasks(ips, a) ==
    LET scanned == ips_to_scan(ips, a.resolve_all_ips)
        P == Len(a.ports)
    IN  [k \in 1..(Len(scanned) * P) |->
            task_for(scanned[((k - 1) \div P) + 1], a.ports[((k - 1) % P) + 1],
                     a.host, a.starttls_protocols)]

-----------------------------------------------------------------------------
(* src/backend/app/scanner.py: scan_domain *)

\* the backend's table of STARTTLS ports; its IMPLICIT_TLS_PORTS holds the
\* ports of the table of src/tls_scanner.py
STARTTLS_PORTS == {25, 587, 143, 110, 21, 5222}

\* sorted(...) of a set of integers
RECURSIVE sorted(_)
sorted(S) ==
    IF S = {} THEN <<>>
    ELSE LET least == CHOOSE x \in S : \A y \in S : x <= y
         IN  <<least>> \o sorted(S \ {least})

\* sorted(list(IMPLICIT_TLS_PORTS) + list(STARTTLS_PORTS)): the two tables
\* have no port in common, so that the list holds each port once
ALL_COMMON_PORTS == sorted(IMPLICIT_TLS_PORTS \cup STARTTLS_PORTS)

\* the argument `ports` of scan_domain: None, or a list
NoPorts == [none |-> TRUE]

PortList(l) == [list |-> l]

choose_ports_absent_only(ports) ==
    IF Has(ports, "none") THEN ALL_COMMON_PORTS ELSE ports.list

\* `if ports is None or len(ports) == 0: ... else: ...`
choose_ports(ports) ==
    IF Has(ports, "none") \/ Len(ports.list) = 0 THEN ALL_COMMON_PORTS ELSE ports.list

\* scan_result before the loop; the timestamps are left out
new_scan_result(host, ports) ==
    [host |-> host, ports_scanned |-> choose_ports(ports), successful_ports |-> <<>>,
     failed_ports |-> <<>>, certificates |-> <<>>, total_certs_found |-> 0]

record_port_result_positions_from_one(scan, port, port_result) ==
    IF port_result.success
    THEN [scan EXCEPT
            !.successful_ports =
                Append(@, [port |-> port,
                           num_certificates |-> Len(port_result.certificates)]),
            !.certificates =
                @ \o [i \in DOMAIN port_result.certificates |->
                        [port |-> port, chain_position |-> i,
                         der_bytes |-> port_result.certificates[i]]]]
    ELSE [scan EXCEPT
            !.failed_ports = Append(@, [port |-> port, error |-> port_result.error])]

\* the body of `for port in ports_to_scan` after the call of
\* fetch_cert_from_port; enumerate counts from 0
record_port_result(scan, port, port_result) ==
    IF port_result.success
    THEN [scan EXCEPT
            !.successful_ports =
                Append(@, [port |-> port,
                           num_certificates |-> Len(port_result.certificates)]),
            !.certificates =
                @ \o [i \in DOMAIN port_result.certificates |->
                        [port |-> port, chain_position |-> i - 1,
                         der_bytes |-> port_result.certificates[i]]]]
    ELSE [scan EXCEPT
            !.failed_ports = Append(@, [port |-> port, error |-> port_result.error])]

\* scan_result['total_certs_found'] = len(scan_result['certificates'])
count_certificates(scan) ==
    [scan EXCEPT !.total_certs_found = Len(scan.certificates)]

-----------------------------------------------------------------------------
(* src/tls_scanner.py: the Concurrency Orchestrator *)

meta_for_ip_from_sni(t) ==
    IF t[1] = "implicit"
    THEN [type |-> "implicit", ip |-> t[4], port |-> t[3], sni |-> t[4]]
    ELSE [type |-> "starttls", ip |-> t[5], port |-> t[3], proto |-> t[4], sni |-> t[5]]

\* the dict stored in future_map for a task
meta_for(t) ==
    IF t[1] = "implicit"
    THEN [type |-> "implicit", ip |-> t[2], port |-> t[3], sni |-> t[4]]
    ELSE [type |-> "starttls", ip |-> t[2], port |-> t[3], proto |-> t[4], sni |-> t[5]]

fetch_task_always_implicit(t, env) ==
    fetch_cert_implicit(t[2], t[3], t[Len(t)], env)

\* the call submitted for a task, run on the endpoint it reaches
fetch_task(t, env) ==
    IF t[1] = "implicit"
    THEN fetch_cert_implicit(t[2], t[3], t[4], env)
    ELSE fetch_cert_starttls(t[2], t[3], t[4], t[5], env)

\* the blocking operations of the call submitted for a task
task_calls(t, env) ==
    IF t[1] = "implicit"
    THEN implicit_calls(t[2], t[3], t[4], env)
    ELSE starttls_calls(t[2], t[3], t[4], t[5], env)

\* the futures a worker thread is running
Running == {i \in DOMAIN futures : futures[i].state = "running"}

worker_always_free(n) == TRUE

worker_free_below_bound(n) == n < args.concurrency - 1

\* ThreadPoolExecutor(max_workers=concurrency): a queued call starts only when
\* fewer than max_workers calls are running
worker_free(n) == n < args.concurrency

\* the work queue is first in, first out
NextQueued(i) ==
    /\ futures[i].state = "pending"
    /\ \A j \in 1..(i - 1) : futures[j].state # "pending"

\* what leaves the try/except around fut.result(): a dict, or the exception
Propagates == [propagates |-> TRUE]

result_unguarded(outcome) ==
    IF outcome.raised THEN Propagates ELSE outcome.value

\* try: res = fut.result()  except Exception as e: res = {'error': str(e)}
result_or_error(outcome) ==
    IF outcome.raised THEN [error |-> outcome.exc] ELSE outcome.value

prepend_entry(results, meta, res) ==
    <<[type |-> meta.type, ip |-> meta.ip, port |-> meta.port,
       sni |-> meta.sni, result |-> res]>> \o results

entry_dropped_on_error(results, meta, res) ==
    IF res.error # None THEN results
    ELSE Append(results, [type |-> meta.type, ip |-> meta.ip, port |-> meta.port,
                          sni |-> meta.sni, result |-> res])

replace_entries(results, meta, res) ==
    <<[type |-> meta.type, ip |-> meta.ip, port |-> meta.port,
       sni |-> meta.sni, result |-> res]>>

\* result['results'].append(entry)
append_entry(results, meta, res) ==
    Append(results, [type |-> meta.type, ip |-> meta.ip, port |-> meta.port,
                     sni |-> meta.sni, result |-> res])

\* as_completed(future_map) yields a future once, when it has finished
Yieldable(i) ==
    /\ futures[i].state = "finished"
    /\ \A k \in DOMAIN yielded : yielded[k] # i

loop_ends_at_first_result == yielded # <<>>

\* the as_completed loop ends when every future of future_map was yielded
loop_exhausted == Len(yielded) = Len(future_map)

\* shutdown(wait=True) returns when no call is queued or running
pool_drained == \A i \in DOMAIN futures : futures[i].state = "finished"

ScanIdle ==
    /\ pc = "idle"
    /\ args = <<>>
    /\ zone = <<>>
    /\ scan_result = <<>>
    /\ tasks = <<>>
    /\ future_map = <<>>
    /\ futures = <<>>
    /\ yielded = <<>>

-----------------------------------------------------------------------------
(* FetchSpec: each fetcher, run once on an endpoint drawn from Endpoints *)

FetchIdle ==
    /\ fpc = "idle"
    /\ fenv = [native |-> [kind |-> "nocert"], tool |-> [kind |-> "missing"]]
    /\ fetcher = "none"
    /\ fres = <<>>
    /\ fcalls = <<>>

MetaIdle ==
    /\ mpc = "idle"
    /\ mcert = <<>>
    /\ mres = <<>>

DomIdle ==
    /\ dpc = "idle"
    /\ dhost = <<>>
    /\ dports = <<>>
    /\ ports_to_scan = <<>>
    /\ dindex = 0
    /\ dscan = <<>>
    /\ dlog = <<>>

CnameIdle ==
    /\ cpc = "idle"
    /\ czone = [n \in Names |-> "no-answer"]
    /\ cn_name = "www.example"
    /\ cn_current = "www.example"
    /\ cn_chain = <<>>
    /\ cn_iter = 0

FetchInit ==
    /\ fpc = "ready"
    /\ fenv \in Endpoints
    /\ fetcher = "none"
    /\ fres = <<>>
    /\ fcalls = <<>>
    /\ CnameIdle
    /\ ScanIdle
    /\ MetaIdle
    /\ DomIdle

RunImplicit ==
    /\ fpc = "ready"
    /\ fpc' = "done"
    /\ fetcher' = "implicit"
    /\ fres' = fetch_cert_implicit("192.0.2.1", 443, "www.example", fenv)
    /\ fcalls' = implicit_calls("192.0.2.1", 443, "www.example", fenv)
    /\ UNCHANGED <<fenv, cnameVars, scanVars, metaVars, domVars>>

RunStartTLS ==
    /\ fpc = "ready"
    /\ fpc' = "done"
    /\ fetcher' = "starttls"
    /\ fres' = fetch_cert_starttls("192.0.2.1", 25, "smtp", "www.example", fenv)
    /\ fcalls' = starttls_calls("192.0.2.1", 25, "smtp", "www.example", fenv)
    /\ UNCHANGED <<fenv, cnameVars, scanVars, metaVars, domVars>>

RunBackend ==
    /\ fpc = "ready"
    /\ fpc' = "done"
    /\ fetcher' = "backend"
    /\ fres' = fetch_cert_from_port("www.example", 443, fenv)
    /\ fcalls' = backend_calls("www.example", 443, fenv)
    /\ UNCHANGED <<fenv, cnameVars, scanVars, metaVars, domVars>>

FetchNext == RunImplicit \/ RunStartTLS \/ RunBackend

FetchSpec == FetchInit /\ [][FetchNext]_vars

-----------------------------------------------------------------------------
(* CnameSpec: follow_cname_chain, one iteration of its loop per step, on     *)
(* every zone over Names, the cyclic ones included                           *)

CnameInit ==
    /\ cpc = "loop"
    /\ czone \in [Names -> CnameAnswers]
    /\ cn_name \in Names
    /\ cn_current = cn_name
    /\ cn_chain = <<>>
    /\ cn_iter = 0
    /\ FetchIdle
    /\ ScanIdle
    /\ MetaIdle
    /\ DomIdle

\* an iteration that finds a CNAME record: follow it
CnameHop ==
    /\ cpc = "loop"
    /\ cname_loop_continues(cn_iter)
    /\ czone[cn_current] \in Names
    /\ cn_chain' = Append(cn_chain, czone[cn_current])
    /\ cn_current' = czone[cn_current]
    /\ cn_iter' = cn_iter + 1
    /\ UNCHANGED <<cpc, czone, cn_name, fetchVars, scanVars, metaVars, domVars>>

\* an iteration whose answer is empty, or whose query raises: break
CnameBreak ==
    /\ cpc = "loop"
    /\ cname_loop_continues(cn_iter)
    /\ czone[cn_current] \notin Names
    /\ cpc' = "done"
    /\ cn_iter' = cn_iter + 1
    /\ UNCHANGED <<czone, cn_name, cn_current, cn_chain, fetchVars, scanVars, metaVars, domVars>>

\* range(max_depth) is used up: return current, chain
CnameExhausted ==
    /\ cpc = "loop"
    /\ ~cname_loop_continues(cn_iter)
    /\ cpc' = "done"
    /\ UNCHANGED <<czone, cn_name, cn_current, cn_chain, cn_iter, fetchVars, scanVars, metaVars, domVars>>

CnameNext == CnameHop \/ CnameBreak \/ CnameExhausted

CnameSpec == CnameInit /\ [][CnameNext]_vars

-----------------------------------------------------------------------------
(* MetaSpec: cert_to_metadata, run once on a certificate object whose        *)
(* accessors each return or raise                                            *)

OkOrRaise(v, why) == {Ok(v), Raise(why)}

\* the keys cert.public_key() may return: RSA, elliptic-curve, DSA (with an
\* attribute that may raise), and a key of another class
PublicKeys ==
    { [type |-> "RSA", key_size |-> k] : k \in OkOrRaise(2048, "key_size failed") }
    \cup { [type |-> "EC", curve_name |-> n] : n \in OkOrRaise("secp256r1", "no name") }
    \cup { [type |-> "DSA", key_size |-> k] : k \in OkOrRaise(1024, "key_size failed") }
    \cup { [type |-> "Ed25519PublicKey"] }

\* cert.public_key() returns a key, or raises on a key the library cannot load
PublicKeyOutcomes ==
    { Ok(k) : k \in PublicKeys } \cup { Raise("UnsupportedAlgorithm") }

\* the SAN extension is present, absent (ExtensionNotFound), or malformed
SanOutcomes ==
    { Ok([dns |-> <<"www.example">>, ips |-> <<"192.0.2.1">>]),
      Raise("ExtensionNotFound"),
      Raise("malformed extension") }

MetaCerts ==
    [cert : {"leaf"},
     subject : OkOrRaise("CN=www.example", "invalid subject"),
     issuer : OkOrRaise("CN=Example CA", "invalid issuer"),
     not_valid_before : OkOrRaise("2026-01-01T00:00:00", "invalid time"),
     not_valid_after : OkOrRaise("2027-01-01T00:00:00", "invalid time"),
     serial_number : OkOrRaise("1f", "invalid serial"),
     san : SanOutcomes,
     public_key : PublicKeyOutcomes,
     signature_algorithm_oid : OkOrRaise("1.2.840.113549.1.1.11", "invalid oid"),
     signature_hash_algorithm : {Ok("sha256"), Ok(None), Raise("UnsupportedAlgorithm")},
     fingerprint : OkOrRaise("ab12", "hash failed")]

MetaInit ==
    /\ mpc = "ready"
    /\ mcert \in MetaCerts
    /\ mres = <<>>
    /\ FetchIdle
    /\ CnameIdle
    /\ ScanIdle
    /\ DomIdle

ExtractMetadata ==
    /\ mpc = "ready"
    /\ mpc' = "done"
    /\ mres' = cert_to_metadata(mcert)
    /\ UNCHANGED <<mcert, fetchVars, cnameVars, scanVars, domVars>>

MetaNext == ExtractMetadata

MetaSpec == MetaInit /\ [][MetaNext]_vars

-----------------------------------------------------------------------------
(* Spec: one call of scan_target, from its entry to its return, with the     *)
(* worker threads of the pool interleaved with the calling thread            *)

\* ports of the implicit-TLS table, of the STARTTLS table, and of neither
PortUniverse == {443, 25, 8080}

\* main() passes a port list that is never empty: --ports takes one or more
\* values, and its absence means the twelve common ports
PortLists == SeqsUpTo(PortUniverse, MaxPorts) \ {<<>>}

\* the arguments of a scan whose tasks are run: what decides the number of
\* tasks and of workers varies
ScanArgs ==
    [host : {"www.example"},
     ports : PortLists,
     follow_cname : {TRUE},
     resolve_all_ips : BOOLEAN,
     starttls_protocols : {{"smtp"}},
     concurrency : 1..MaxWorkers]

\* the zones of such a scan, seen by a configured resolver: a host with no record at all, a host with an A
\* record, and an alias of cdn that has an A and an AAAA record
ScanZones ==
    { [configured |-> TRUE,
       cname |-> [n \in Names |-> "no-answer"],
       a     |-> [n \in Names |-> NoAddresses],
       aaaa  |-> [n \in Names |-> NoAddresses]],
      [configured |-> TRUE,
       cname |-> [n \in Names |-> "no-answer"],
       a     |-> [n \in Names |-> [fail |-> FALSE, rrs |-> <<"192.0.2.1">>]],
       aaaa  |-> [n \in Names |-> NoAddresses]],
      [configured |-> TRUE,
       cname |-> [n \in Names |-> IF n = "www.example" THEN "cdn.example" ELSE "no-answer"],
       a     |-> [n \in Names |-> [fail |-> FALSE,
                                   rrs |-> IF n = "www.example" THEN <<"192.0.2.1">>
                                           ELSE <<"198.51.100.1">>]],
       aaaa  |-> [n \in Names |-> [fail |-> FALSE, rrs |-> <<"2001:db8::1">>]]] }

\* the lines of scan_target from its entry to `result['resolved_ips'] = ips`,
\* or to the call of resolve_ips when that call raises
resolve_target(a, z) ==
    LET followed == followed_or_host(a, z)
        named    == [canonical_name |-> followed.canonical,
                     cname_chain    |-> followed.cname_chain]
    IN  IF resolve_ips_raises(z)
        THEN named
        ELSE [resolved_ips |-> ips_or_literal(resolve_ips(followed.canonical, z), a.host)]
             @@ named

\* the endpoints a task may reach: one that serves its chain, one that is closed
Healthy ==
    [native |-> [kind |-> "ok", der |-> DerBytes("leaf")],
     tool   |-> [kind |-> "ran",
                 stdout |-> [empty |-> FALSE,
                             blocks |-> <<PemBlock("leaf"), PemBlock("inter")>>],
                 stderr |-> ""]]

Closed ==
    [native |-> [kind |-> "refused"],
     tool   |-> [kind |-> "ran", stdout |-> [empty |-> TRUE, blocks |-> <<>>],
                 stderr |-> "connect:errno=111"]]

ScanEndpoints == {Healthy, Closed}

\* what a submitted call may do: return the fetcher's dict after the blocking
\* operations it performed, or raise
Outcomes(t) ==
    {[raised |-> FALSE, value |-> fetch_task(t, env), calls |-> task_calls(t, env)]
        : env \in ScanEndpoints}
    \cup {[raised |-> TRUE, exc |-> "RuntimeError"]}

Init ==
    /\ pc = "entry"
    /\ args \in ScanArgs
    /\ zone \in ScanZones
    /\ Len(build_tasks(resolve_target(args, zone).resolved_ips, args)) <= MaxTasks
    /\ scan_result = [requested_host |-> args.host, results |-> <<>>]
    /\ tasks = <<>>
    /\ future_map = <<>>
    /\ futures = <<>>
    /\ yielded = <<>>
    /\ FetchIdle
    /\ CnameIdle
    /\ MetaIdle
    /\ DomIdle

\* follow_cname_chain, resolve_ips and the fallback to the literal host; an
\* exception of resolve_ips leaves scan_target
Resolve ==
    /\ pc = "entry"
    /\ scan_result' = resolve_target(args, zone) @@ scan_result
    /\ pc' = IF resolve_ips_raises(zone) THEN "failed" ELSE "resolved"
    /\ UNCHANGED <<args, zone, tasks, future_map, futures, yielded, fetchVars, cnameVars, metaVars, domVars>>

\* the loops that build tasks
Schedule ==
    /\ pc = "resolved"
    /\ tasks' = build_tasks(scan_result.resolved_ips, args)
    /\ pc' = "submitting"
    /\ UNCHANGED <<args, zone, scan_result, future_map, futures, yielded, fetchVars, cnameVars, metaVars, domVars>>

\* ex.submit(...) of the next task, and its future_map entry; after the last
\* one the calling thread enters the as_completed loop
Submit ==
    /\ pc = "submitting"
    /\ Len(future_map) < Len(tasks)
    /\ future_map' = Append(future_map, meta_for(tasks[Len(future_map) + 1]))
    /\ futures' = Append(futures, [state |-> "pending"])
    /\ pc' = IF Len(future_map) + 1 = Len(tasks) THEN "collecting" ELSE "submitting"
    /\ UNCHANGED <<args, zone, scan_result, tasks, yielded, fetchVars, cnameVars, metaVars, domVars>>

\* a worker thread takes the call at the head of the queue
Start(i) ==
    /\ pc \in {"submitting", "collecting"}
    /\ NextQueued(i)
    /\ worker_free(Cardinality(Running))
    /\ futures' = [futures EXCEPT ![i] = [state |-> "running"]]
    /\ UNCHANGED <<pc, args, zone, scan_result, tasks, future_map, yielded, fetchVars, cnameVars, metaVars, domVars>>

\* the call returns or raises in its worker thread
Finish(i) ==
    /\ pc \in {"submitting", "collecting"}
    /\ futures[i].state = "running"
    /\ \E o \in Outcomes(tasks[i]) :
          futures' = [futures EXCEPT ![i] = [state |-> "finished", outcome |-> o]]
    /\ UNCHANGED <<pc, args, zone, scan_result, tasks, future_map, yielded, fetchVars, cnameVars, metaVars, domVars>>

\* one iteration of `for fut in as_completed(future_map)`
Collect(i) ==
    /\ pc = "collecting"
    /\ Yieldable(i)
    /\ yielded' = Append(yielded, i)
    /\ LET res == result_or_error(futures[i].outcome)
       IN  IF res = Propagates
           THEN /\ pc' = "failed"
                /\ UNCHANGED scan_result
           ELSE /\ pc' = pc
                /\ scan_result' = [scan_result EXCEPT
                        !.results = append_entry(@, future_map[i], res)]
    /\ UNCHANGED <<args, zone, tasks, future_map, futures, fetchVars, cnameVars, metaVars, domVars>>

\* as_completed has yielded every future: the loop is left
LeaveLoop ==
    /\ pc = "collecting"
    /\ loop_exhausted
    /\ pc' = "shutdown"
    /\ UNCHANGED <<args, zone, scan_result, tasks, future_map, futures, yielded, fetchVars, cnameVars, metaVars, domVars>>

\* the with block ends in ex.shutdown(wait=True), then `return result`
Return ==
    /\ pc = "shutdown"
    /\ pool_drained
    /\ pc' = "returned"
    /\ UNCHANGED <<args, zone, scan_result, tasks, future_map, futures, yielded, fetchVars, cnameVars, metaVars, domVars>>

Next ==
    \/ Resolve
    \/ Schedule
    \/ Submit
    \/ \E i \in DOMAIN futures : Start(i)
    \/ \E i \in DOMAIN futures : Finish(i)
    \/ \E i \in DOMAIN futures : Collect(i)
    \/ LeaveLoop
    \/ Return

Spec == Init /\ [][Next]_vars

\* the steps of the thread that called scan_target
CallingThread ==
    \/ Resolve
    \/ Schedule
    \/ Submit
    \/ \E i \in DOMAIN futures : Collect(i)
    \/ LeaveLoop
    \/ Return

\* the calling thread keeps running; an idle worker thread takes a queued
\* call; a blocking operation completes or hits its timeout, so that a running
\* call returns or raises
Fairness ==
    /\ WF_vars(CallingThread)
    /\ WF_vars(\E i \in DOMAIN futures : Start(i))
    /\ WF_vars(\E i \in DOMAIN futures : Finish(i))

\* the port lists of the scans whose termination is checked: one implicit
\* task, one STARTTLS task, or one of each, for every address
LivePortLists == {<<443>>, <<25>>, <<443, 25>>}

LiveInit == Init /\ args.ports \in LivePortLists

LiveSpec == LiveInit /\ [][Next]_vars /\ Fairness

-----------------------------------------------------------------------------
(* PlanSpec: scan_target from its entry to the task list, on every           *)
(* combination of its flags and on zones whose lookups may fail              *)

\* two ports of the implicit-TLS table, two of the STARTTLS table with
\* different protocols, and one of neither
PlanPorts == {443, 465, 25, 143, 8080}

PlanPortLists == SeqsUpTo(PlanPorts, MaxPorts) \ {<<>>}

PlanArgs ==
    [host : {"www.example"},
     ports : PlanPortLists,
     follow_cname : BOOLEAN,
     resolve_all_ips : BOOLEAN,
     starttls_protocols : SUBSET {"smtp", "imap"},
     concurrency : {1}]

PlanAnswers(rrs) == {NoAddresses, LookupFails, [fail |-> FALSE, rrs |-> rrs]}

PlanZones ==
    [configured : BOOLEAN,
     cname : { [n \in Names |-> "no-answer"],
               [n \in Names |-> "dns-error"],
               [n \in Names |-> IF n = "www.example" THEN "cdn.example" ELSE "no-answer"] },
     a     : { [n \in Names |-> IF n = "www.example" THEN w ELSE c]
                 : w \in PlanAnswers(<<"192.0.2.1", "192.0.2.2">>),
                   c \in PlanAnswers(<<"198.51.100.1">>) },
     aaaa  : { [n \in Names |-> q] : q \in PlanAnswers(<<"2001:db8::1">>) }]

PlanInit ==
    /\ pc = "entry"
    /\ args \in PlanArgs
    /\ zone \in PlanZones
    /\ scan_result = [requested_host |-> args.host, results |-> <<>>]
    /\ tasks = <<>>
    /\ future_map = <<>>
    /\ futures = <<>>
    /\ yielded = <<>>
    /\ FetchIdle
    /\ CnameIdle
    /\ MetaIdle
    /\ DomIdle

PlanNext == Resolve \/ Schedule

PlanSpec == PlanInit /\ [][PlanNext]_vars

-----------------------------------------------------------------------------
(* DomainSpec: one call of the backend's scan_domain, one call of            *)
(* fetch_cert_from_port at a time, on hosts whose ports answer in every way  *)

\* ports a caller may name: of the implicit-TLS table, of the STARTTLS table,
\* and of neither
DomPorts == {443, 8443, 25, 8080}

\* None, the empty list, and the lists over DomPorts, repetitions included
DomPortArgs == {NoPorts} \cup {PortList(l) : l \in SeqsUpTo(DomPorts, MaxPorts)}

ScannablePorts == {ALL_COMMON_PORTS[i] : i \in DOMAIN ALL_COMMON_PORTS} \cup DomPorts

Endpoint(native, tool) == [native |-> native, tool |-> tool]

\* a web server: the full chain on 443 and 8443, every other port closed
WebHost ==
    [name |-> "www.example",
     endpoint |-> [p \in ScannablePorts |-> IF p \in {443, 8443} THEN Healthy ELSE Closed]]

\* a mail server on a machine without openssl: TLS on 465, 993 and 995,
\* plaintext greetings on the STARTTLS ports, a handshake without certificate
\* on 443, and a firewall that drops the rest
MailHost ==
    [name |-> "mail.example",
     endpoint |-> [p \in ScannablePorts |->
        IF p \in {465, 993, 995}
        THEN Endpoint([kind |-> "ok", der |-> DerBytes("leaf")], [kind |-> "missing"])
        ELSE IF p \in STARTTLS_PORTS
        THEN Endpoint([kind |-> "sslerror"], [kind |-> "missing"])
        ELSE IF p = 443
        THEN Endpoint([kind |-> "nocert"], [kind |-> "missing"])
        ELSE Endpoint([kind |-> "timeout"], [kind |-> "missing"])]]

\* a name that does not resolve
NoSuchHost ==
    [name |-> "nxdomain.example",
     endpoint |-> [p \in ScannablePorts |-> Endpoint([kind |-> "gaierror"], Closed.tool)]]

\* a host whose ports misbehave each in its own way
OddHost ==
    [name |-> "odd.example",
     endpoint |-> [p \in ScannablePorts |->
        CASE p = 443  -> Endpoint([kind |-> "ok", der |-> DerBytes("undecodable")],
                                  [kind |-> "ran",
                                   stdout |-> [empty |-> FALSE,
                                               blocks |-> <<PemBlock("garbled"), PemBlock("inter")>>],
                                   stderr |-> ""])
          [] p = 8443 -> Endpoint([kind |-> "hs_timeout"], Closed.tool)
          [] p = 25   -> Endpoint([kind |-> "oserror"], Closed.tool)
          [] p = 21   -> Endpoint([kind |-> "ok", der |-> DerBytes("leaf")], [kind |-> "timeout"])
          [] p = 8080 -> Endpoint([kind |-> "ok", der |-> DerBytes("leaf")],
                                  [kind |-> "ran",
                                   stdout |-> [empty |-> FALSE,
                                               blocks |-> <<PemBlock("leaf"), PemBlock("inter"),
                                                            PemBlock("leaf")>>],
                                   stderr |-> ""])
          [] OTHER    -> Closed]]

DomHosts == {WebHost, MailHost, NoSuchHost, OddHost}

DomInit ==
    /\ dpc = "entry"
    /\ dhost \in DomHosts
    /\ dports \in DomPortArgs
    /\ ports_to_scan = <<>>
    /\ dindex = 0
    /\ dscan = <<>>
    /\ dlog = <<>>
    /\ FetchIdle
    /\ CnameIdle
    /\ ScanIdle
    /\ MetaIdle

\* scan_domain from its entry to the head of its loop
DomainBegin ==
    /\ dpc = "entry"
    /\ ports_to_scan' = choose_ports(dports)
    /\ dscan' = new_scan_result(dhost.name, dports)
    /\ dpc' = "loop"
    /\ UNCHANGED <<dhost, dports, dindex, dlog, fetchVars, cnameVars, scanVars, metaVars>>

\* the next iteration calls fetch_cert_from_port
FetchStart ==
    /\ dpc = "loop"
    /\ dindex < Len(ports_to_scan)
    /\ dlog' = Append(dlog, [ev |-> "call", index |-> dindex + 1,
                             port |-> ports_to_scan[dindex + 1]])
    /\ dpc' = "fetching"
    /\ UNCHANGED <<dhost, dports, ports_to_scan, dindex, dscan, fetchVars, cnameVars, scanVars, metaVars>>

\* fetch_cert_from_port returns, and the rest of the iteration
FetchReturn ==
    /\ dpc = "fetching"
    /\ LET port == ports_to_scan[dindex + 1]
           port_result == fetch_cert_from_port(dhost.name, port, dhost.endpoint[port])
       IN  /\ dscan' = record_port_result(dscan, port, port_result)
           /\ dlog' = Append(dlog, [ev |-> "return", index |-> dindex + 1, port |-> port,
                                    success |-> port_result.success,
                                    certificates |-> Len(port_result.certificates)])
    /\ dindex' = dindex + 1
    /\ dpc' = "loop"
    /\ UNCHANGED <<dhost, dports, ports_to_scan, fetchVars, cnameVars, scanVars, metaVars>>

\* the loop is exhausted: the count, and `return scan_result`
DomainFinish ==
    /\ dpc = "loop"
    /\ dindex = Len(ports_to_scan)
    /\ dscan' = count_certificates(dscan)
    /\ dpc' = "done"
    /\ UNCHANGED <<dhost, dports, ports_to_scan, dindex, dlog, fetchVars, cnameVars, scanVars, metaVars>>

DomainNext == DomainBegin \/ FetchStart \/ FetchReturn \/ DomainFinish

DomainSpec == DomInit /\ [][DomainNext]_vars

-----------------------------------------------------------------------------
(* Claims about the fetchers (FetchSpec) *)

Count(x, seq) == Cardinality({i \in DOMAIN seq : seq[i] = x})

IsMarker(entry) == Has(entry, "parse_error")

ToolBlocks == IF fenv.tool.kind = "ran" THEN fenv.tool.stdout.blocks ELSE <<>>

\* the native handshake delivered the leaf certificate
NativeLeaf == fenv.native = [kind |-> "ok", der |-> DerBytes("leaf")]

\* the tool's output holds at least one certificate that parses
ToolDeliversCerts == \E i \in DOMAIN ToolBlocks : pem_parses(ToolBlocks[i])

\* the merged sequence of the implicit fetcher in tls_scanner: leaf, then chain
ImplicitMerged ==
    (IF Has(fres, "leaf") THEN <<fres.leaf>> ELSE <<>>)
    \o (IF Has(fres, "chain") THEN fres.chain ELSE <<>>)

C3_Implicit ==
    (fpc = "done" /\ fetcher = "implicit" /\ NativeLeaf /\ ToolDeliversCerts)
    => /\ ImplicitMerged # <<>>
       /\ ImplicitMerged[1] = cert_to_metadata(CertObject("leaf"))
       /\ Count(cert_to_metadata(CertObject("leaf")), ImplicitMerged) = 1

C3_Backend ==
    (fpc = "done" /\ fetcher = "backend" /\ NativeLeaf /\ ToolDeliversCerts)
    => /\ fres.certificates # <<>>
       /\ fres.certificates[1] = DerBytes("leaf")
       /\ Count(DerBytes("leaf"), fres.certificates) = 1

\* C3: in both implicit-TLS fetchers, when the native handshake yields a leaf
\* and the tool returns certificates, the merged sequence starts with the
\* native leaf and holds it exactly once.
C3_LeafFirstExactlyOnce == C3_Implicit /\ C3_Backend

\* what does hold of the backend: the native leaf is first, and a first PEM
\* block equal to it is not appended again
C3_BackendLeafFirst ==
    (fpc = "done" /\ fetcher = "backend" /\ NativeLeaf)
    => /\ fres.certificates[1] = DerBytes("leaf")
       /\ (ToolBlocks # <<>> /\ ToolBlocks[1] = PemBlock("leaf")
             /\ Count(PemBlock("leaf"), ToolBlocks) = 1
           => Count(DerBytes("leaf"), fres.certificates) = 1)

\* the tool's output holds at least one PEM block
ToolHasBlocks == ToolBlocks # <<>>

C4_Implicit ==
    (fpc = "done" /\ fetcher = "implicit" /\ NativeRaises(fenv.native))
    => /\ ToolHasBlocks
            => (fres.error = None /\ Has(fres, "chain")
                /\ fres.chain = implicit_chain(ToolBlocks))
       /\ fres.error # None => ~ToolDeliversCerts

C4_Backend ==
    (fpc = "done" /\ fetcher = "backend" /\ NativeRaises(fenv.native))
    => /\ ToolDeliversCerts => (fres.success /\ fres.certificates # <<>>)
       /\ ~fres.success => ~ToolDeliversCerts

\* C4: in both implicit-TLS fetchers, when the native connect or handshake
\* fails the fetcher falls back to the tool: the task succeeds with the
\* tool's certificates when it delivers some, and fails only when it does not.
C4_FallbackToTool == C4_Implicit /\ C4_Backend

\* the well-formed blocks of the tool's output, in output order, as metadata
RECURSIVE WellFormed(_)
WellFormed(pems) ==
    IF pems = <<>> THEN <<>>
    ELSE IF pem_parses(Head(pems))
         THEN <<Head(pems)>> \o WellFormed(Tail(pems))
         ELSE WellFormed(Tail(pems))

\* several PEM blocks, one of them malformed
OneMalformedBlock ==
    /\ fenv.tool.kind = "ran"
    /\ Len(ToolBlocks) >= 2
    /\ \E i \in DOMAIN ToolBlocks : ~pem_parses(ToolBlocks[i])

\* the chain of a tls_scanner fetcher: a marker at each malformed block's
\* position, the metadata of each well-formed block at its own
C8_TlsScanner ==
    (fpc = "done" /\ fetcher \in {"implicit", "starttls"} /\ OneMalformedBlock)
    => /\ Has(fres, "chain")
       /\ Len(fres.chain) = Len(ToolBlocks)
       /\ \A i \in DOMAIN ToolBlocks :
            IF pem_parses(ToolBlocks[i])
            THEN fres.chain[i] = cert_to_metadata(parse_cert_from_pem(ToolBlocks[i]))
            ELSE IsMarker(fres.chain[i])

\* the chain of the backend fetcher is what follows the native leaf
C8_Backend ==
    (fpc = "done" /\ fetcher = "backend" /\ fenv.native.kind = "ok" /\ OneMalformedBlock)
    => \E i \in DOMAIN fres.certificates : IsMarker(fres.certificates[i])

\* C8: when the tool's output holds several PEM blocks of which one is
\* malformed, the chain of every fetcher holds a parse-error entry at the
\* malformed block's position and every well-formed block, in output order.
C8_MalformedBlockMarked == C8_TlsScanner /\ C8_Backend

\* what does hold of the backend: the malformed block is passed over and the
\* well-formed blocks after the first are kept in output order
C8_BackendKeepsWellFormed ==
    (fpc = "done" /\ fetcher = "backend" /\ fenv.native.kind = "ok" /\ OneMalformedBlock)
    => /\ \A i \in DOMAIN fres.certificates : ~IsMarker(fres.certificates[i])
       /\ LET kept == [i \in DOMAIN WellFormed(Tail(ToolBlocks)) |->
                          public_bytes(parse_cert_from_pem(WellFormed(Tail(ToolBlocks))[i]))]
              n    == Len(fres.certificates)
          IN  /\ n >= Len(kept)
              /\ SubSeq(fres.certificates, n - Len(kept) + 1, n) = kept

\* what fails after the backend stored the leaf: the tool is missing, times
\* out, cannot be run, prints nothing, or prints a block that does not parse
ChainExtractionFails ==
    \/ fenv.tool.kind # "ran"
    \/ fenv.tool.stdout.empty
    \/ \E i \in DOMAIN ToolBlocks : ~pem_parses(ToolBlocks[i])

\* C15: a result of the backend's fetch_cert_from_port never has success true
\* together with an error that is not None, also when the chain extraction
\* fails after the leaf was stored.
C15_BackendWellFormed ==
    (fpc = "done" /\ fetcher = "backend")
    => /\ ~(fres.success /\ fres.error # None)
       /\ (NativeLeaf /\ ChainExtractionFails)
            => (fres.success /\ fres.error = None /\ fres.certificates[1] = DerBytes("leaf"))

\* the leaf was stored, then the tool timed out: success without an error
C15_Witness ==
    /\ fpc = "done"
    /\ fetcher = "backend"
    /\ NativeLeaf
    /\ fenv.tool.kind = "timeout"
    /\ fres.success
    /\ fres.error = None
    /\ fres.certificates = <<DerBytes("leaf")>>

\* C16: in a result of tls_scanner's fetch_cert_implicit or fetch_cert_starttls
\* an error that is not None comes with neither a leaf nor a chain.
C16_ErrorMeansNoCertificates ==
    (fpc = "done" /\ fetcher \in {"implicit", "starttls"} /\ fres.error # None)
    => (~Has(fres, "leaf") /\ ~Has(fres, "chain"))

\* a STARTTLS task against a closed port: the tool prints nothing on stdout
\* and the connection failure on stderr
C16_Witness ==
    /\ fpc = "done"
    /\ fetcher = "starttls"
    /\ fenv.tool = [kind |-> "ran", stdout |-> [empty |-> TRUE, blocks |-> <<>>],
                    stderr |-> "connect:errno=111"]
    /\ fres.mode = "starttls"
    /\ fres.protocol = "smtp"
    /\ fres.error = "connect:errno=111"
    /\ ~Has(fres, "leaf")

\* the ways the tool path fails: the tool is missing, it times out, it prints
\* nothing, it prints output without a certificate block
ToolGivesNoOutput ==
    \/ fenv.tool.kind \in {"missing", "timeout"}
    \/ fenv.tool.kind = "ran" /\ fenv.tool.stdout.empty

ToolOutputHasNoBlock ==
    /\ fenv.tool.kind = "ran"
    /\ ~fenv.tool.stdout.empty
    /\ fenv.tool.stdout.blocks = <<>>

ToolPathFails == ToolGivesNoOutput \/ ToolOutputHasNoBlock

\* the class of the failure that happened
ToolFailureClass ==
    IF fenv.tool.kind = "missing" THEN "tool unavailable"
    ELSE IF ToolOutputHasNoBlock THEN "no certificates found in output"
    ELSE "network/protocol failure"

\* the class a reader of the gateway's return value takes it for
GatewayClass(ret) ==
    IF ~Truthy(ret.out)
    THEN IF ret.err = "openssl not found in PATH"
         THEN "tool unavailable"
         ELSE "network/protocol failure"
    ELSE IF extract_pems_from_openssl_output(ret.out) = <<>>
         THEN "no certificates found in output"
         ELSE "certificates"

\* the class a reader of a task's error takes it for
ErrorClass(err) ==
    CASE err = "openssl not found in PATH" -> "tool unavailable"
      [] err \in {"no_pem_found_in_openssl_output",
                  no_certs_error(""), no_certs_error("connect:errno=111")}
            -> "no certificates found in output"
      [] OTHER -> "network/protocol failure"

\* the gateway returned a pair of values
GatewayReturnsValue ==
    /\ Has(run_openssl_showcerts(fenv.tool), "out")
    /\ Has(run_openssl_showcerts(fenv.tool), "err")

\* C17, as stated: the gateway never raises, and the error reported for the
\* task that invoked it (by either fetcher of tls_scanner) tells apart a tool
\* that is unavailable, a network or protocol failure (timeout included) and
\* output without certificates.
C17_ErrorTellsClassesApart ==
    /\ GatewayReturnsValue
    /\ (fpc = "done" /\ fetcher \in {"implicit", "starttls"}
        /\ ToolPathFails /\ fres.error # None)
       => ErrorClass(fres.error) = ToolFailureClass

\* C17, amended: the gateway never raises and its return value tells the
\* three classes apart; so does the error of fetch_cert_starttls; the error of
\* fetch_cert_implicit, reported only when the native handshake failed as
\* well, is the native reason both for a tool that is unavailable and for one
\* that times out or prints nothing.
C17_GatewayTellsClassesApart ==
    /\ GatewayReturnsValue
    /\ ToolPathFails
       => GatewayClass(run_openssl_showcerts(fenv.tool)) = ToolFailureClass
    /\ (fpc = "done" /\ fetcher = "starttls" /\ ToolPathFails)
       => (fres.error # None /\ ErrorClass(fres.error) = ToolFailureClass)
    /\ (fpc = "done" /\ fetcher = "implicit" /\ ToolGivesNoOutput)
       => fres.error = (IF NativeRaises(fenv.native)
                        THEN str_exc(fenv.native.kind) ELSE None)

\* the native connect was refused and the tool is missing: fetch_cert_implicit
\* reports the refusal, fetch_cert_starttls would report the missing tool
C17_Witness ==
    /\ fpc = "done"
    /\ fenv.tool.kind = "missing"
    /\ fenv.native.kind = "refused"
    /\ \/ fetcher = "implicit" /\ fres.error = "[Errno 111] Connection refused"
       \/ fetcher = "starttls" /\ fres.error = "openssl not found in PATH"

\* C19: in tls_scanner's fetch_cert_implicit, when the native handshake fails
\* and the tool path fails as well (tool missing, timeout, empty output, output
\* with no certificate block), the error is the native failure reason.
C19_NativeReasonPreferred ==
    (fpc = "done" /\ fetcher = "implicit" /\ NativeRaises(fenv.native) /\ ToolPathFails)
    => fres.error = str_exc(fenv.native.kind)

\* what does hold: the native reason is reported when the tool gave no output,
\* and the tool's reason when it gave output without a certificate block
C19_NativeReasonWhenNoOutput ==
    (fpc = "done" /\ fetcher = "implicit" /\ NativeRaises(fenv.native))
    => /\ ToolGivesNoOutput => fres.error = str_exc(fenv.native.kind)
       /\ ToolOutputHasNoBlock => fres.error = no_certs_error(fenv.tool.stderr)

\* the gateway returned (None, error_message)
GatewayFailed == run_openssl_showcerts(fenv.tool).out = NoOutput

TimedOut == {i \in DOMAIN fcalls : fcalls[i].timed_out}

\* C24: counting time in timeout intervals, a task of scan_target is bounded by
\* one interval once it holds a worker: its fetcher never waits out more than
\* one full timeout-bounded blocking operation (TCP connect, TLS handshake,
\* tool run) in sequence before it produces its result.
C24_OneTimeoutPerTask ==
    (fpc = "done" /\ fetcher \in {"implicit", "starttls"}) =>
        Cardinality(TimedOut) <= 1

\* what holds of C24: the STARTTLS fetcher waits out at most one timeout, the
\* implicit fetcher at most two, the second being the tool run of its fallback
C24_TimeoutsPerFetcher ==
    /\ (fpc = "done" /\ fetcher = "starttls") => Cardinality(TimedOut) <= 1
    /\ (fpc = "done" /\ fetcher = "implicit") =>
          /\ Cardinality(TimedOut) <= 2
          /\ Cardinality(TimedOut) = 2 =>
                /\ NativeRaises(fenv.native)
                /\ fcalls[Len(fcalls)].op = "openssl"
                /\ fcalls[Len(fcalls)].timed_out

-----------------------------------------------------------------------------
(* Claims about cert_to_metadata (MetaSpec) *)

BasicKeys == {BasicFields[i].key : i \in DOMAIN BasicFields}

MetaFields ==
    BasicKeys \cup {"san", "public_key", "signature_algorithm_oid",
                    "signature_hash_algorithm", "sha256_fingerprint"}

\* the place of a key in the first try block
BasicIndex(key) == (CHOOSE i \in DOMAIN BasicFields : BasicFields[i].key = key)

\* the one-accessor fields of the three last try blocks
TailAttr(f) == IF f = "sha256_fingerprint" THEN "fingerprint" ELSE f

\* extracting the field fails: its accessor raises (an absent SAN extension
\* is no failure, and neither is a curve without a name)
FieldFails(f) ==
    CASE f \in BasicKeys -> ~mcert[BasicFields[BasicIndex(f)].attr].ok
      [] f = "san" -> ~mcert.san.ok /\ mcert.san.why # "ExtensionNotFound"
      [] f = "public_key" ->
            \/ ~mcert.public_key.ok
            \/ /\ mcert.public_key.v.type \in {"RSA", "DSA"}
               /\ ~mcert.public_key.v.key_size.ok
      [] OTHER -> ~mcert[TailAttr(f)].ok

\* the returned record holds what the field's accessor gave
FieldExtracted(f) ==
    CASE f \in BasicKeys ->
            Has(mres, f) /\ mres[f] = mcert[BasicFields[BasicIndex(f)].attr].v
      [] f = "san" ->
            /\ Has(mres, "san")
            /\ mres.san = (IF mcert.san.ok
                           THEN mcert.san.v.dns \o mcert.san.v.ips ELSE <<>>)
      [] f = "public_key" -> Has(mres, "public_key_algorithm")
      [] OTHER -> Has(mres, f) /\ mres[f] = mcert[TailAttr(f)].v

\* the key under which the code records a failure of the field, if it has one
MarkerOf(f) ==
    CASE f \in BasicKeys -> "parse_error_basic"
      [] f = "public_key" -> "public_key_parse_error"
      [] OTHER -> "no marker"

\* C21: cert_to_metadata extracts every field independently: when the
\* extraction of one field fails, the returned record holds a parse-error
\* marker for that field and every other field whose extraction does not fail.
C21_FieldsIndependent ==
    mpc = "done" =>
        /\ ~Raised(mres)
        /\ \A f \in MetaFields :
              FieldFails(f)
              => /\ Has(mres, MarkerOf(f))
                 /\ \A g \in MetaFields \ {f} : ~FieldFails(g) => FieldExtracted(g)

\* what does hold when public_key() returns: the six try blocks are isolated
\* from each other; inside the first one the fields before the first failing
\* one are extracted, that one and those after it are not, and the handler
\* sets parse_error_basic; a failing SAN gives [], a failing signature OID,
\* signature hash or fingerprint gives None, with no marker
C21_BlocksIsolated ==
    (mpc = "done" /\ mcert.public_key.ok)
    => /\ ~Raised(mres)
       /\ \A i \in DOMAIN BasicFields :
             IF \A j \in 1..i : mcert[BasicFields[j].attr].ok
             THEN FieldExtracted(BasicFields[i].key)
             ELSE ~Has(mres, BasicFields[i].key) /\ Has(mres, "parse_error_basic")
       /\ FieldExtracted("san")
       /\ FieldExtracted("public_key")
       /\ \A f \in {"signature_algorithm_oid", "signature_hash_algorithm",
                    "sha256_fingerprint"} :
             /\ Has(mres, f)
             /\ mres[f] = (IF mcert[TailAttr(f)].ok THEN mcert[TailAttr(f)].v ELSE None)

\* the key is of a type other than RSA, elliptic-curve or DSA, a key the
\* library cannot load included
OtherKeyType ==
    \/ ~mcert.public_key.ok
    \/ mcert.public_key.v.type \notin {"RSA", "EC", "DSA"}

\* C22: cert_to_metadata never raises; for a key of another type, one the
\* library cannot load included, it returns a record whose
\* public_key_algorithm is a generic label, with the remaining fields present.
C22_NeverRaises ==
    mpc = "done" =>
        /\ ~Raised(mres)
        /\ OtherKeyType
           => /\ Has(mres, "public_key_algorithm")
              /\ mres.public_key_algorithm \notin {"RSA", "ECDSA", "DSA"}
              /\ \A f \in {"san", "signature_algorithm_oid",
                           "signature_hash_algorithm", "sha256_fingerprint"} :
                    Has(mres, f)

\* what does hold: a key of another class that the library loads is labelled
\* with its class name, and the fields of the other try blocks are present
C22_LoadedKeyLabelled ==
    (mpc = "done" /\ mcert.public_key.ok /\ OtherKeyType)
    => /\ ~Raised(mres)
       /\ mres.public_key_algorithm = mcert.public_key.v.type
       /\ ~Has(mres, "public_key_bits")
       /\ \A f \in {"san", "signature_algorithm_oid",
                    "signature_hash_algorithm", "sha256_fingerprint"} :
             Has(mres, f)

-----------------------------------------------------------------------------
(* Claims about scan_target (Spec, PlanSpec) *)

Results == scan_result.results

\* the task whose future is i reached the results list at position k
ReportedAt(i, k) == k \in DOMAIN yielded /\ yielded[k] = i

Failed(i) == futures[i].outcome.raised \/ futures[i].outcome.value.error # None

\* C1: the returned results list holds exactly one entry per scheduled task:
\* as many entries as tasks, every task reported, none reported twice.
C1_OneEntryPerTask ==
    /\ pc \in {"collecting", "shutdown", "returned"} => Len(Results) = Len(yielded)
    /\ pc = "returned" =>
          /\ Len(Results) = Len(tasks)
          /\ \A i \in DOMAIN tasks :
                Cardinality({k \in DOMAIN Results : ReportedAt(i, k)}) = 1

\* a scan of four tasks returned, with a success, an error value and an
\* exception among the outcomes
C1_Witness ==
    /\ pc = "returned"
    /\ Len(tasks) = 4
    /\ \E i, j, k \in DOMAIN futures :
          /\ futures[i].outcome.raised
          /\ ~futures[j].outcome.raised /\ futures[j].outcome.value.error # None
          /\ ~futures[k].outcome.raised /\ futures[k].outcome.value.error = None

\* C2: at no time are more than `concurrency` fetch tasks executing.
C2_ConcurrencyBound == Cardinality(Running) <= args.concurrency

\* the pool is full while a further task waits in the queue
C2_Witness ==
    /\ args.concurrency = 2
    /\ Cardinality(Running) = 2
    /\ \E i \in DOMAIN futures : futures[i].state = "pending"

\* the rank of an address in the ascending order of the addresses of the model
IpRank(ip) ==
    CASE ip = "192.0.2.1"    -> 1
      [] ip = "192.0.2.2"    -> 2
      [] ip = "198.51.100.1" -> 3
      [] ip = "2001:db8::1"  -> 4
      [] OTHER               -> 5

Before(e1, e2) ==
    \/ IpRank(e1.ip) < IpRank(e2.ip)
    \/ IpRank(e1.ip) = IpRank(e2.ip) /\ e1.port <= e2.port

SortedByIpThenPort(entries) ==
    \A k \in DOMAIN entries : \A l \in DOMAIN entries :
        k < l => Before(entries[k], entries[l])

\* C5, as stated: the returned results list is sorted by IP, then by port,
\* whatever the completion order.
C5_CanonicalOrder == pc = "returned" => SortedByIpThenPort(Results)

\* C5, amended: the returned results list is in the order in which
\* as_completed yielded the tasks, each entry carrying the type, IP, port and
\* SNI of the task at that place in the order.
C5_YieldOrder ==
    pc = "returned" =>
        /\ Len(Results) = Len(yielded)
        /\ \A k \in DOMAIN Results :
              LET m == meta_for(tasks[yielded[k]])
              IN  /\ Results[k].type = m.type
                  /\ Results[k].ip = m.ip
                  /\ Results[k].port = m.port
                  /\ Results[k].sni = m.sni

\* a returned scan whose results are not in the order of IP and port
C5_Witness ==
    /\ pc = "returned"
    /\ Len(Results) >= 2
    /\ ~SortedByIpThenPort(Results)

\* C6: a task that fails (an error value, or an exception) takes no other
\* task down and does not make scan_target fail: the call never ends with an
\* exception, and at its return every task has run to its end and is reported
\* with its own outcome, a failed one with an error entry.
C6_FailureIsolated ==
    /\ pc # "failed"
    /\ pc = "returned" =>
          \A i \in DOMAIN tasks :
              /\ futures[i].state = "finished"
              /\ \E k \in DOMAIN Results :
                    /\ ReportedAt(i, k)
                    /\ Results[k].result =
                           (IF futures[i].outcome.raised
                            THEN [error |-> futures[i].outcome.exc]
                            ELSE futures[i].outcome.value)
                    /\ Failed(i) => Results[k].result.error # None

\* a returned scan in which one task raised and a sibling succeeded
C6_Witness ==
    /\ pc = "returned"
    /\ \E i, j \in DOMAIN futures :
          /\ i < j
          /\ futures[i].outcome.raised
          /\ ~futures[j].outcome.raised /\ futures[j].outcome.value.error = None
          /\ \E k \in DOMAIN Results :
                ReportedAt(j, k) /\ Results[k].result.error = None

\* C7: the aggregate is complete, and scan_target returns, only after every
\* submitted task has finished.
C7_ReturnsAfterAllFinished ==
    pc \in {"shutdown", "returned"} =>
        /\ Len(future_map) = Len(tasks)
        /\ \A i \in DOMAIN tasks : futures[i].state = "finished"

\* a returned scan that had more tasks than workers
C7_Witness ==
    /\ pc = "returned"
    /\ Len(tasks) > args.concurrency
    /\ \A i \in DOMAIN tasks : futures[i].state = "finished"

\* neither the A nor the AAAA lookup of the canonical name gave an address
NoAddressFound ==
    /\ answer_or_nothing(zone.a[scan_result.canonical_name]) = <<>>
    /\ answer_or_nothing(zone.aaaa[scan_result.canonical_name]) = <<>>

PortOf(t) == t[3]

ModeOf(t) == t[1]

\* C11: every task whose port is in the implicit-TLS table has mode implicit,
\* whatever the enabled STARTTLS protocol set is; this holds of the task list
\* and of the scheduler's rule on each port of the table.
C11_ImplicitTableIsImplicit ==
    /\ \A i \in DOMAIN tasks :
          PortOf(tasks[i]) \in IMPLICIT_TLS_PORTS
          => tasks[i] = <<"implicit", tasks[i][2], PortOf(tasks[i]), args.host>>
    /\ \A port \in IMPLICIT_TLS_PORTS :
          task_for("192.0.2.1", port, args.host, args.starttls_protocols)
              = <<"implicit", "192.0.2.1", port, args.host>>

\* port 465 scheduled as implicit while smtp is enabled and port 25 of the
\* same scan is scheduled as STARTTLS
C11_Witness ==
    /\ pc = "submitting"
    /\ "smtp" \in args.starttls_protocols
    /\ \E i, j \in DOMAIN tasks :
          /\ PortOf(tasks[i]) = 465 /\ ModeOf(tasks[i]) = "implicit"
          /\ PortOf(tasks[j]) = 25 /\ ModeOf(tasks[j]) = "starttls"

\* the port is mapped to a STARTTLS protocol that the caller did not enable
MappedNotEnabled(port, enabled) ==
    /\ port \in DOMAIN STARTTLS_PORT_PROTO
    /\ STARTTLS_PORT_PROTO[port] \notin enabled

\* C12: a task whose port is mapped to a STARTTLS protocol that is not in the
\* enabled set has mode implicit, never starttls; this holds of the task list
\* and of the scheduler's rule on each port of the STARTTLS table.
C12_DisabledProtocolIsImplicit ==
    /\ \A i \in DOMAIN tasks :
          MappedNotEnabled(PortOf(tasks[i]), args.starttls_protocols)
          => tasks[i] = <<"implicit", tasks[i][2], PortOf(tasks[i]), args.host>>
    /\ \A port \in DOMAIN STARTTLS_PORT_PROTO :
          MappedNotEnabled(port, args.starttls_protocols)
          => task_for("192.0.2.1", port, args.host, args.starttls_protocols)
                 = <<"implicit", "192.0.2.1", port, args.host>>

\* only imap is enabled: port 25 (smtp) is scheduled as implicit, port 143
\* (imap) as STARTTLS
C12_Witness ==
    /\ pc = "submitting"
    /\ args.starttls_protocols = {"imap"}
    /\ \E i, j \in DOMAIN tasks :
          /\ PortOf(tasks[i]) = 25 /\ ModeOf(tasks[i]) = "implicit"
          /\ PortOf(tasks[j]) = 143 /\ ModeOf(tasks[j]) = "starttls"

\* the port is outside the implicit-TLS table and mapped to an enabled protocol
MappedAndEnabled(port, enabled) ==
    /\ port \notin IMPLICIT_TLS_PORTS
    /\ port \in DOMAIN STARTTLS_PORT_PROTO
    /\ STARTTLS_PORT_PROTO[port] \in enabled

\* C13: a task whose port is outside the implicit-TLS table and mapped to an
\* enabled STARTTLS protocol P has mode starttls with protocol P, its future is
\* recorded as starttls with protocol P, and the call that ran for it is the
\* STARTTLS fetcher with the task's address, port and protocol P.
C13_EnabledProtocolIsStartTLS ==
    /\ \A i \in DOMAIN tasks :
          MappedAndEnabled(PortOf(tasks[i]), args.starttls_protocols)
          => tasks[i] = <<"starttls", tasks[i][2], PortOf(tasks[i]),
                          STARTTLS_PORT_PROTO[PortOf(tasks[i])], args.host>>
    /\ \A i \in DOMAIN future_map :
          MappedAndEnabled(PortOf(tasks[i]), args.starttls_protocols)
          => /\ future_map[i].type = "starttls"
             /\ future_map[i].proto = STARTTLS_PORT_PROTO[PortOf(tasks[i])]
    /\ \A i \in DOMAIN futures :
          (/\ MappedAndEnabled(PortOf(tasks[i]), args.starttls_protocols)
           /\ futures[i].state = "finished"
           /\ ~futures[i].outcome.raised)
          => /\ futures[i].outcome.value.mode = "starttls"
             /\ futures[i].outcome.value.protocol = STARTTLS_PORT_PROTO[PortOf(tasks[i])]
             /\ futures[i].outcome.value.host = tasks[i][2]
             /\ futures[i].outcome.value.port = PortOf(tasks[i])
    /\ \A port \in DOMAIN STARTTLS_PORT_PROTO :
          task_for("192.0.2.1", port, "www.example", {STARTTLS_PORT_PROTO[port]})
              = <<"starttls", "192.0.2.1", port, STARTTLS_PORT_PROTO[port], "www.example">>

\* a returned scan whose port-25 task ran the STARTTLS fetcher with smtp and
\* whose port-443 task ran the implicit fetcher
C13_Witness ==
    /\ pc = "returned"
    /\ \E i, j \in DOMAIN futures :
          /\ PortOf(tasks[i]) = 25
          /\ ~futures[i].outcome.raised
          /\ futures[i].outcome.value.mode = "starttls"
          /\ futures[i].outcome.value.protocol = "smtp"
          /\ PortOf(tasks[j]) = 443
          /\ ~futures[j].outcome.raised
          /\ futures[j].outcome.value.mode = "implicit"

\* the SNI of a task: the last element of its tuple
SniOf(t) == t[Len(t)]

\* C14: the SNI of every task is the requested hostname, not a resolved IP
\* and not the canonical name, and the same value is recorded for the task's
\* future, handed to the fetcher as servername and written to the task's
\* result entry, for implicit and for STARTTLS tasks.
C14_SniIsRequestedHost ==
    /\ \A i \in DOMAIN tasks : SniOf(tasks[i]) = args.host
    /\ \A i \in DOMAIN future_map : future_map[i].sni = args.host
    /\ \A i \in DOMAIN futures :
          (futures[i].state = "finished" /\ ~futures[i].outcome.raised)
          => futures[i].outcome.value.servername = args.host
    /\ \A k \in DOMAIN Results : Results[k].sni = args.host

\* a returned scan of an alias whose canonical name and addresses differ from
\* the requested host, with an implicit and a STARTTLS task both reported
C14_Witness ==
    /\ pc = "returned"
    /\ scan_result.canonical_name # args.host
    /\ \A i \in DOMAIN tasks : tasks[i][2] # args.host
    /\ \E k, l \in DOMAIN Results :
          /\ Results[k].type = "implicit" /\ Results[l].type = "starttls"
          /\ Results[k].sni = "www.example" /\ Results[l].sni = "www.example"
          /\ Results[k].result.error = None
          /\ Results[k].result.servername = "www.example"
          /\ Results[l].result.error = None
          /\ Results[l].result.servername = "www.example"

\* the call of a STARTTLS task returned
StartTLSDone(i) ==
    /\ ModeOf(tasks[i]) = "starttls"
    /\ futures[i].state = "finished"
    /\ ~futures[i].outcome.raised

\* C18: the call of a STARTTLS task performs one blocking operation, a run of
\* the tool, and no native connect or handshake, whether it ends in
\* certificates or in an error; the tool connects to the task's IP and port,
\* with the task's hostname as -servername and its protocol as -starttls.
C18_StartTLSDelegates ==
    \A i \in DOMAIN futures :
        StartTLSDone(i)
        => /\ \A k \in DOMAIN futures[i].outcome.calls :
                 futures[i].outcome.calls[k].op = "openssl"
           /\ Len(futures[i].outcome.calls) = 1
           /\ futures[i].outcome.calls[1].cmd =
                 [connect |-> <<tasks[i][2], PortOf(tasks[i])>>,
                  options |-> <<"-showcerts", "-servername", args.host,
                                "-starttls", tasks[i][4]>>]

\* a returned scan with two STARTTLS tasks, one that got certificates and one
\* that met a closed port, each after a single run of the tool
C18_Witness ==
    /\ pc = "returned"
    /\ \E i, j \in DOMAIN futures :
          /\ StartTLSDone(i) /\ futures[i].outcome.value.error = None
          /\ StartTLSDone(j) /\ futures[j].outcome.value.error # None
          /\ Len(futures[i].outcome.calls) = 1
          /\ Len(futures[j].outcome.calls) = 1
          /\ futures[i].outcome.calls[1].cmd.connect = <<tasks[i][2], 25>>

\* every submitted call has produced its outcome and its entry
AllTasksDone ==
    /\ Len(future_map) = Len(tasks)
    /\ \A i \in DOMAIN tasks : futures[i].state = "finished"
    /\ Len(Results) = Len(tasks)

\* C25: when every blocking operation completes or hits its timeout and the
\* threads are scheduled fairly, every submitted task eventually produces a
\* result and scan_target eventually returns, whatever the number of workers
\* and of tasks.
C25_EventuallyReturns == <>(pc = "returned" /\ AllTasksDone)

\* scan_target returned from a scan with more tasks than workers
C25_Witness ==
    /\ pc = "returned"
    /\ AllTasksDone
    /\ Len(tasks) > args.concurrency

\* a step of a worker thread: a call of the pool starts or finishes
WorkerStep == Len(futures') = Len(futures) /\ futures' # futures

\* the entry the calling thread builds for the future as_completed yields
EntryOf(i) ==
    [type |-> future_map[i].type, ip |-> future_map[i].ip,
     port |-> future_map[i].port, sni |-> future_map[i].sni,
     result |-> IF futures[i].outcome.raised
                THEN [error |-> futures[i].outcome.exc]
                ELSE futures[i].outcome.value]

\* C26: the worker tasks of scan_target share no mutable state: a step of a
\* worker writes the outcome of its own future only, and the results list
\* changes only in the calling thread's loop, by one entry appended to the
\* entries it holds, so that no interleaving loses, duplicates or corrupts an
\* entry.
C26_WorkersShareNothing ==
    [][ /\ WorkerStep =>
              /\ Cardinality({i \in DOMAIN futures : futures'[i] # futures[i]}) = 1
              /\ scan_result' = scan_result
              /\ future_map' = future_map
              /\ tasks' = tasks
              /\ yielded' = yielded
        /\ Results' # Results =>
              /\ pc = "collecting"
              /\ futures' = futures
              /\ Len(yielded') = Len(yielded) + 1
              /\ Results' = Append(Results, EntryOf(yielded'[Len(yielded')]))
      ]_vars

\* two entries were appended out of submission order while a worker is running
C26_Witness ==
    /\ Len(Results) >= 2
    /\ yielded[1] > yielded[2]
    /\ Running # {}
    /\ \A k \in DOMAIN Results : Results[k] = EntryOf(yielded[k])

\* the operations of a call address the task's ip and port with the task's
\* SNI, and its protocol if it has one
CallsAreOf(calls, t) ==
    \A c \in DOMAIN calls :
        /\ calls[c].op = "connect" => calls[c].address = <<t[2], t[3]>>
        /\ calls[c].op = "handshake" => calls[c].server_hostname = SniOf(t)
        /\ calls[c].op = "openssl" =>
              /\ calls[c].cmd.connect = <<t[2], t[3]>>
              /\ calls[c].cmd.options =
                    <<"-showcerts", "-servername", SniOf(t)>>
                    \o (IF ModeOf(t) = "starttls" THEN <<"-starttls", t[4]>> ELSE <<>>)

\* the futures are those of the tasks, in order, and what was run and recorded
\* for a task is its own
TaskConsumedAsBuilt ==
    /\ Len(future_map) <= Len(tasks)
    /\ Len(futures) = Len(future_map)
    /\ \A i \in DOMAIN future_map :
          /\ future_map[i].type = ModeOf(tasks[i])
          /\ future_map[i].ip = tasks[i][2]
          /\ future_map[i].port = PortOf(tasks[i])
          /\ future_map[i].sni = SniOf(tasks[i])
          /\ (futures[i].state = "finished" /\ ~futures[i].outcome.raised) =>
                /\ CallsAreOf(futures[i].outcome.calls, tasks[i])
                /\ futures[i].outcome.calls # <<>>
                /\ futures[i].outcome.value.port = PortOf(tasks[i])
                /\ futures[i].outcome.value.servername = SniOf(tasks[i])
                /\ futures[i].outcome.value.mode = ModeOf(tasks[i])
    /\ \A k \in DOMAIN Results :
          /\ \A j \in DOMAIN yielded : yielded[j] = yielded[k] => j = k
          /\ Results[k].ip = tasks[yielded[k]][2]
          /\ Results[k].port = PortOf(tasks[yielded[k]])
          /\ Results[k].sni = SniOf(tasks[yielded[k]])
          /\ futures[yielded[k]].state = "finished"
          /\ ~futures[yielded[k]].outcome.raised =>
                Results[k].result = futures[yielded[k]].outcome.value

\* a future is submitted once, started once and finished once, and the task
\* list never changes once built
ConsumedOnce ==
    /\ \A i \in DOMAIN futures :
          /\ i \in DOMAIN futures'
          /\ future_map'[i] = future_map[i]
          /\ futures[i].state = "running" => futures'[i].state # "pending"
          /\ futures[i].state = "finished" => futures'[i] = futures[i]
    /\ Len(futures') <= Len(futures) + 1
    /\ tasks # <<>> => tasks' = tasks

\* C27: each task built by scan_target is consumed exactly once: it is
\* submitted once, its fetcher runs once with the task's own ip, port, SNI and
\* protocol, and the entry recorded for it carries that ip, port and SNI.
C27_TaskConsumedOnce == []TaskConsumedAsBuilt /\ [][ConsumedOnce]_vars

\* a scan of two addresses and two ports returned: every task has its entry
C27_Witness ==
    /\ pc = "returned"
    /\ Len(tasks) = 4
    /\ Len(Results) = 4
    /\ \E k \in DOMAIN Results : yielded[k] # k
    /\ \E i, j \in DOMAIN tasks : tasks[i][2] # tasks[j][2] /\ PortOf(tasks[i]) # PortOf(tasks[j])

\* the addresses one record type contributes for a name: none when its lookup
\* fails
Contributed(rr, name) == IF rr[name].fail THEN <<>> ELSE rr[name].rrs

\* the names the CNAME lookups were made for, in order
Followed == <<args.host>> \o scan_result.cname_chain

\* name resolution has degraded every failure: the chain follows the zone and
\* stops at the name whose CNAME lookup fails or is empty, and the addresses
\* are those of the canonical name, each record type on its own
ResolutionDegraded ==
    LET canon == scan_result.canonical_name
        found == Contributed(zone.a, canon) \o Contributed(zone.aaaa, canon)
    IN  /\ canon = Followed[Len(Followed)]
        /\ \A k \in DOMAIN scan_result.cname_chain :
              scan_result.cname_chain[k] = zone.cname[Followed[k]]
        /\ IF args.follow_cname
           THEN zone.cname[canon] \notin Names
           ELSE scan_result.cname_chain = <<>>
        /\ scan_result.resolved_ips = IF found = <<>> THEN <<args.host>> ELSE found

\* C23: no DNS failure leaves name resolution for scan_target's caller: a
\* failing CNAME lookup stops the chain at the current name, a failing A or
\* AAAA lookup contributes nothing for its record type only, and both are made
\* against the canonical name.
C23_NoDnsFailurePropagates ==
    /\ pc # "failed"
    /\ pc # "entry" => ResolutionDegraded

\* what holds of C23: the failures of the lookups are degraded, when the
\* resolver itself could be built
C23_LookupFailuresDegraded ==
    (pc # "entry" /\ resolver_configured(zone)) =>
        /\ pc # "failed"
        /\ ResolutionDegraded

\* an A lookup failed and the AAAA addresses of the canonical name were returned
C23_LookupFailed ==
    /\ pc = "resolved"
    /\ zone.a[scan_result.canonical_name].fail
    /\ scan_result.resolved_ips = <<"2001:db8::1">>

-----------------------------------------------------------------------------
(* Claims about the backend's scan_domain (DomainSpec) *)

RECURSIVE SumCertificates(_)
SumCertificates(entries) ==
    IF entries = <<>> THEN 0
    ELSE entries[1].num_certificates + SumCertificates(Tail(entries))

\* the place in `certificates` before the first certificate of the k-th
\* successful port
BlockStart(k) == SumCertificates(SubSeq(dscan.successful_ports, 1, k - 1))

\* the leaf the native handshake delivers on a port of the scanned host
NativeLeafOf(port) == dhost.endpoint[port].native.der

\* the certificates of the k-th successful port are n >= 1 consecutive entries
\* of its port, at positions 0..n-1, the first one the native leaf
BlockWellFormed(k) ==
    LET entry == dscan.successful_ports[k]
    IN  /\ entry.num_certificates >= 1
        /\ BlockStart(k) + entry.num_certificates <= Len(dscan.certificates)
        /\ \A j \in 0..(entry.num_certificates - 1) :
              /\ dscan.certificates[BlockStart(k) + j + 1].port = entry.port
              /\ dscan.certificates[BlockStart(k) + j + 1].chain_position = j
        /\ dscan.certificates[BlockStart(k) + 1].der_bytes = NativeLeafOf(entry.port)

\* C28: in the result of scan_domain every scanned port occurrence is
\* accounted for exactly once, as a successful or as a failed port; the
\* certificates come from the successful ports only; total_certs_found is the
\* length of `certificates` and the sum of num_certificates; and the chain
\* positions of a successful port are 0..n-1, position 0 being the native leaf.
C28_PortsAccounted ==
    /\ dpc \in {"loop", "fetching"} =>
          Len(dscan.successful_ports) + Len(dscan.failed_ports) = dindex
    /\ dpc \in {"loop", "fetching", "done"} =>
          /\ Len(dscan.certificates) = SumCertificates(dscan.successful_ports)
          /\ \A k \in DOMAIN dscan.successful_ports : BlockWellFormed(k)
    /\ dpc = "done" =>
          /\ Len(dscan.successful_ports) + Len(dscan.failed_ports) = Len(dscan.ports_scanned)
          /\ dscan.total_certs_found = Len(dscan.certificates)
          /\ dscan.total_certs_found = SumCertificates(dscan.successful_ports)

\* a scan returned with a failed port, and a successful port of several
\* certificates followed by another successful port
C28_Witness ==
    /\ dpc = "done"
    /\ dscan.failed_ports # <<>>
    /\ Len(dscan.successful_ports) >= 2
    /\ dscan.successful_ports[1].num_certificates >= 2

\* the returns of fetch_cert_from_port so far, in order
Returns == SelectSeq(dlog, LAMBDA e : e.ev = "return")

PortsOf(entries) == [k \in DOMAIN entries |-> entries[k].port]

IsSuccess(e) == e.success

IsFailure(e) == ~e.success

\* the port of a successful return, once per certificate it delivered
RECURSIVE CertificatePorts(_)
CertificatePorts(returns) ==
    IF returns = <<>> THEN <<>>
    ELSE (IF returns[1].success
          THEN [j \in 1..returns[1].certificates |-> returns[1].port]
          ELSE <<>>)
         \o CertificatePorts(Tail(returns))

\* the twelve common ports, ascending
TwelveCommonPorts == <<21, 25, 110, 143, 443, 465, 587, 993, 995, 5061, 5222, 8443>>

\* C29: scan_domain probes the ports one at a time in the order of the port
\* list: the fetch of index i+1 is called only after the fetch of index i has
\* returned; successful_ports, failed_ports and certificates list their
\* entries in that order; and an empty or absent port list means the twelve
\* common ports, the union of the two port tables, in ascending order.
C29_OneAtATimeInOrder ==
    dpc # "entry" =>
        /\ \A k \in DOMAIN dlog :
              /\ dlog[k].index = (k + 1) \div 2
              /\ dlog[k].ev = IF k % 2 = 1 THEN "call" ELSE "return"
              /\ dlog[k].port = ports_to_scan[dlog[k].index]
        /\ Len(dlog) = 2 * dindex + (IF dpc = "fetching" THEN 1 ELSE 0)
        /\ PortsOf(dscan.successful_ports) = PortsOf(SelectSeq(Returns, IsSuccess))
        /\ PortsOf(dscan.failed_ports) = PortsOf(SelectSeq(Returns, IsFailure))
        /\ PortsOf(dscan.certificates) = CertificatePorts(Returns)
        /\ dscan.ports_scanned = ports_to_scan
        /\ IF Has(dports, "none") \/ dports = PortList(<<>>)
           THEN /\ ports_to_scan = TwelveCommonPorts
                /\ {ports_to_scan[i] : i \in DOMAIN ports_to_scan}
                      = IMPLICIT_TLS_PORTS \cup STARTTLS_PORTS
           ELSE ports_to_scan = dports.list

\* a scan of the empty port list returned after its twelve fetches, with
\* successful and failed ports
C29_Witness ==
    /\ dpc = "done"
    /\ dports = PortList(<<>>)
    /\ Len(dlog) = 24
    /\ Len(dscan.successful_ports) >= 2
    /\ Len(dscan.failed_ports) >= 2

\* C30: every entry of failed_ports carries an error that is not None:
\* fetch_cert_from_port never returns success = False with error = None,
\* whether the connect timed out, the name did not resolve, the connection was
\* refused, the handshake failed, another exception was raised, or the
\* handshake returned no certificate.
C30_FailedPortHasError ==
    dpc # "entry" =>
        /\ \A k \in DOMAIN dscan.failed_ports : dscan.failed_ports[k].error # None
        /\ dpc = "fetching" =>
              LET port == ports_to_scan[dindex + 1]
                  port_result == fetch_cert_from_port(dhost.name, port, dhost.endpoint[port])
              IN  ~port_result.success => port_result.error # None

\* a scan returned whose failed ports include one without certificate in the
\* handshake and one whose connect timed out
C30_Witness ==
    /\ dpc = "done"
    /\ \E j, k \in DOMAIN dscan.failed_ports :
          /\ dscan.failed_ports[j].error = "No certificate returned by server"
          /\ dscan.failed_ports[k].error = "Connection timeout after 8s"

-----------------------------------------------------------------------------
(* Claims about follow_cname_chain (CnameSpec) *)

\* C10: follow_cname_chain ends after at most 10 CNAME hops on every zone,
\* a cyclic one included: the loop never begins an 11th iteration, the chain
\* never holds more than 10 entries, a loop that is not done can always take
\* another step, and what it returns is the last name of the chain.
C10_CnameBounded ==
    /\ cn_iter <= max_depth
    /\ Len(cn_chain) <= max_depth
    /\ Len(cn_chain) <= cn_iter
    /\ cpc = "loop" => ENABLED CnameNext
    /\ cpc = "done" =>
          /\ cn_current = (IF cn_chain = <<>> THEN cn_name ELSE cn_chain[Len(cn_chain)])
          /\ [canonical |-> cn_current, cname_chain |-> cn_chain] = follow_cname_chain(cn_name, czone)

\* a cyclic chain www -> cdn -> www followed until the hop bound stops it
C10_Witness ==
    /\ cpc = "done"
    /\ czone["www.example"] = "cdn.example"
    /\ czone["cdn.example"] = "www.example"
    /\ cn_name = "www.example"
    /\ Len(cn_chain) = max_depth

====
